---- MODULE Spec2Model ----
(***************************************************************************)
(* Voucher server (src/server.js): the request handlers /submit,           *)
(* /edit-voucher/:id, /vouchers/:voucherNo (DELETE), /get-voucher-no,      *)
(* /vouchers, /check-session and /logout, over the record store (MongoDB   *)
(* collection Voucher), the spreadsheet store (Google Sheets), the folder  *)
(* store (Google Drive), the session store (express-session) and the       *)
(* rendered-document files in the server's directory.                      *)
(* src/unnamed/part_000 is the same program with another page layout of    *)
(* the document.                                                           *)
(*                                                                         *)
(* A handler is cut at its awaits: one action is the completion of the     *)
(* awaited call (its effect on the store it talks to) together with the    *)
(* synchronous code that follows it, up to the next await or the response. *)
(* Node runs that code without interleaving; other requests run only while *)
(* a request is suspended in an await.                                     *)
(***************************************************************************)
EXTENDS Integers, Sequences, FiniteSets, TLC

\* ------------------------------------------------------------------ bounds
\* Requests that arrive in one behaviour.
MaxRequests == 3
\* Requests that arrive in one behaviour of SpecAlloc and of SpecConc.
MaxAllocRequests == 4
MaxOverlapRequests == 3
\* Largest voucher number a client puts in a request (body.voucherNo, :voucherNo).
MaxNo == 1
\* Calls to the outside (identity provider, Sheets, Drive, MongoDB, the local
\* write stream) that fail for a reason of their own in one behaviour.
MaxFailures == 1
\* Requests that arrive in one behaviour of SpecDesync.
MaxDesyncRequests == 3
\* Requests that arrive in one behaviour of SpecList.
MaxListRequests == 3
\* Requests that arrive in one behaviour of SpecDup, and the largest voucher
\* number and record id they name.
MaxDupRequests == 4
MaxDupNo == 2
\* Requests that arrive in one behaviour of SpecOrder.
MaxOrderRequests == 4
\* Requests that arrive in one behaviour of SpecOwn.
MaxOwnRequests == 5
\* Requests that arrive in one behaviour of SpecSess.
MaxSessRequests == 4

\* Request slots: requests that can be in flight at the same time.
Slots == {1, 2}

\* ------------------------------------------------------------------ values
Owners == {"ann@x.io", "bob@x.io"}
NoUser == "nobody"
NoToken == "notoken"
Sessions == {"sid1"}
NoSession == "nocookie"

\* The category check of the handlers.
Registry == {"Contentstack", "Surfboard", "RawEngineering"}
\* The categories requests carry: two of the registry and one outside it.
Filters == {"Contentstack", "Surfboard", "Acme"}
Companies == Filters \cap Registry

\* voucherSchema.transactionType.enum
TransactionTypes == {"UPI", "Cash", "Account"}

\* The free-text fields of a voucher (date, amount, transaction type stand for
\* the eleven body fields the handlers copy unchanged).
NoData == [date |-> "", amount |-> "", transactionType |-> ""]
VoucherData ==
    { [date |-> "2024-01-01", amount |-> "500", transactionType |-> "UPI"],
      [date |-> "2024-01-02", amount |-> "75", transactionType |-> "Cheque"] }

NoVoucher ==
    [id |-> 0, email |-> NoUser, company |-> "", voucherNo |-> 0, data |-> NoData,
     pdfLink |-> 0, spreadsheetId |-> 0, folderId |-> 0, pdfFileId |-> 0]

\* A cleared spreadsheet row (values.clear leaves the row in place, empty).
EmptyRow == [no |-> 0, filter |-> "", data |-> NoData, link |-> 0]

Idle ==
    [op |-> "none", pc |-> "idle", sid |-> NoSession, bearer |-> NoToken,
     filter |-> "", bodyNo |-> 0, data |-> NoData, param |-> 0,
     user |-> NoUser, auth |-> FALSE,
     spreadsheetId |-> 0, folderId |-> 0, voucherNumber |-> 0, voucherNo |-> 0,
     existing |-> NoVoucher, pdfFileId |-> 0, rowIndex |-> 0,
     status |-> 0, result |-> 0, calls |-> <<>>, readVer |-> 0,
     sort |-> "", listed |-> <<>>]

VARIABLES
    vouchers,      \* the Voucher collection, in natural (insertion) order
    nextId,        \* the _id the next inserted record gets
    sheets,        \* spreadsheets by id: [title, header, rows]; rows are A2:O
    folders,       \* number of Drive folders created (ids 1..folders)
    files,         \* Drive files by id: [name, parent, content, live]
    sessionUser,   \* session store: session id -> req.session.user
    req,           \* the requests in flight or answered, by slot
    nreq,          \* requests arrived so far
    nfail,         \* calls failed so far for a reason of their own
    lastNo,        \* history: number stored by the last successful submit of a pair
    ver,           \* history: inserts and deletes done on the Voucher collection
    disk           \* names of the rendered-document files in the server's directory

vars ==
    <<vouchers, nextId, sheets, folders, files, sessionUser, req, nreq, nfail, lastNo, ver,
      disk>>
stores == <<vouchers, nextId, sheets, folders, files>>

\* ------------------------------------------------------------------ helpers
Min(S) == CHOOSE m \in S : \A k \in S : m <= k

Active(s) == req[s].pc \notin {"idle", "done"}
NoneActive == \A s \in Slots : ~Active(s)

\* The slot an arriving request takes: the lowest one not in flight.
FreeSlot(s) == ~Active(s) /\ \A t \in Slots : t < s => Active(t)

Called(r, name, ok) == Append(r.calls, [call |-> name, ok |-> ok])

\* The outcomes of an awaited call: it fails when it cannot succeed, and it may
\* fail for a reason of its own (network, quota, outage).
Outcomes(can) ==
    IF ~can THEN {FALSE} ELSE IF nfail < MaxFailures THEN BOOLEAN ELSE {TRUE}
Counted(can, ok) == nfail' = IF can /\ ~ok THEN nfail + 1 ELSE nfail

\* A Google API call succeeds only with credentials: on the session path
\* authenticateGoogle returns no auth, and `auth || authenticateGoogle(req).auth`
\* is then undefined (the property of a Promise).
HasAuth(r) == r.auth

\* drive.files.delete({ fileId }) finds the file.
Live(fileId) == fileId \in DOMAIN files /\ files[fileId].live

\* What is kept of a request that is over: what it asked, who asked, the log of
\* its calls.
Over(r) ==
    [Idle EXCEPT !.op = r.op, !.pc = "done", !.filter = r.filter, !.param = r.param,
                 !.user = r.user, !.calls = r.calls]

\* res.status(st).send(...)
Send(s, r, st, res) ==
    /\ req' = [req EXCEPT ![s] = [Over(r) EXCEPT !.status = st, !.result = res]]
    /\ UNCHANGED sessionUser

\* The handler suspends in its next await.
Await(s, r) ==
    /\ req' = [req EXCEPT ![s] = r]
    /\ UNCHANGED sessionUser

\* Mutant: the category check is missing.
ValidFilterAny(filter) == TRUE

\* ["Contentstack", "Surfboard", "RawEngineering"].includes(filter)
ValidFilter(filter) == filter \in Registry

\* The status a handler's catch sends: 401 in /check-session, 500 elsewhere.
FailStatus(op) == IF op = "check" THEN 401 ELSE 500

\* The pc after identity resolution, by handler.
AfterAuth(op) ==
    CASE op = "submit" -> "findExisting"
      [] op = "getno" -> "findExisting"
      [] op = "edit" -> "editFind"
      [] op = "list" -> "listFind"
      [] op = "check" -> "checkSend"
      [] OTHER -> "deleteFind"

\* Mutant: a bearer token is exchanged also when the session holds an identity.
AuthenticateBearerFirst(s, r) ==
    IF r.bearer # NoToken
    THEN Await(s, [r EXCEPT !.pc = "userinfo"])
    ELSE IF r.sid # NoSession /\ sessionUser[r.sid] # NoUser
         THEN Await(s, [r EXCEPT !.user = sessionUser[r.sid], !.pc = AfterAuth(r.op),
                                 !.sid = NoSession, !.bearer = NoToken])
         ELSE Send(s, r, FailStatus(r.op), 0)

\* authenticateGoogle up to its await. The session and the bearer token are
\* read here and in UserInfo only.
Authenticate(s, r) ==
    IF r.sid # NoSession /\ sessionUser[r.sid] # NoUser
    THEN Await(s, [r EXCEPT !.user = sessionUser[r.sid], !.pc = AfterAuth(r.op),
                            !.sid = NoSession, !.bearer = NoToken])
    ELSE IF r.bearer = NoToken
         THEN Send(s, r, FailStatus(r.op), 0)
         ELSE Await(s, [r EXCEPT !.pc = "userinfo"])

\* Mutant: the lookup of a stored voucher of the pair finds none.
FindOneByCompanyNone(email, company) == NoVoucher

\* Voucher.findOne({ email, company })
FindOneByCompany(email, company) ==
    LET I == {i \in DOMAIN vouchers :
                 vouchers[i].email = email /\ vouchers[i].company = company}
    IN  IF I = {} THEN NoVoucher ELSE vouchers[Min(I)]

\* Mutant: the sort is missing, the first record of the pair is taken.
HighestVoucherUnsorted(email, company) == FindOneByCompany(email, company)

\* Voucher.findOne({ email, company }).sort({ voucherNo: -1 })
HighestVoucher(email, company) ==
    LET I == {i \in DOMAIN vouchers :
                 vouchers[i].email = email /\ vouchers[i].company = company}
    IN  IF I = {} THEN NoVoucher
        ELSE vouchers[CHOOSE i \in I : \A j \in I :
                         \/ vouchers[j].voucherNo < vouchers[i].voucherNo
                         \/ vouchers[j].voucherNo = vouchers[i].voucherNo /\ i <= j]

\* Mutants: the highest number is given out again; numbering restarts at 1.
VoucherNumberNoIncrement(highest) == IF highest = NoVoucher THEN 1 ELSE highest.voucherNo
VoucherNumberRestart(highest) == 1

\* const voucherNumber = highestVoucher ? highestVoucher.voucherNo + 1 : 1
VoucherNumber(highest) == IF highest = NoVoucher THEN 1 ELSE highest.voucherNo + 1

\* Mutant: a number another submit of the pair has computed and not yet stored
\* is reserved.
NextNumberReserving(r) ==
    VoucherNumber(HighestVoucher(r.user, r.filter))
    + Cardinality({t \in Slots :
                      /\ req[t].op = "submit"
                      /\ req[t].pc \in {"render", "upload", "append", "save"}
                      /\ req[t].user = r.user /\ req[t].filter = r.filter})

\* getUserResources: the number it returns for a request.
NextNumber(r) == VoucherNumber(HighestVoucher(r.user, r.filter))

\* voucherData.voucherNo || voucherNumber
\* Mutant: the number of the request body is ignored.
ChosenNoAllocated(bodyNo, voucherNumber) == voucherNumber

ChosenNo(bodyNo, voucherNumber) == IF bodyNo # 0 THEN bodyNo ELSE voucherNumber

\* webViewLink of an uploaded file
Link(fileId) == 100 + fileId

\* The rendered document: what the handler prints on it.
Pdf(r) == [voucherNo |-> r.voucherNo, filter |-> r.filter, data |-> r.data]

\* Mutant: the record is looked up by its id alone.
FindOneByIdAnyOwner(id, email) ==
    LET I == {i \in DOMAIN vouchers : vouchers[i].id = id}
    IN  IF I = {} THEN NoVoucher ELSE vouchers[Min(I)]

\* Voucher.findOne({ _id, email })
FindOneById(id, email) ==
    LET I == {i \in DOMAIN vouchers : vouchers[i].id = id /\ vouchers[i].email = email}
    IN  IF I = {} THEN NoVoucher ELSE vouchers[Min(I)]

\* Mutant: the record to delete is looked up by its number alone.
FindOneByNoAnyOwner(voucherNo, email) ==
    LET I == {i \in DOMAIN vouchers : vouchers[i].voucherNo = voucherNo}
    IN  IF I = {} THEN NoVoucher ELSE vouchers[Min(I)]

\* Voucher.findOne({ voucherNo, email })
FindOneByNo(voucherNo, email) ==
    LET I == {i \in DOMAIN vouchers :
                 vouchers[i].voucherNo = voucherNo /\ vouchers[i].email = email}
    IN  IF I = {} THEN NoVoucher ELSE vouchers[Min(I)]

\* A sequence without its element at position i.
Without(seq, i) == [k \in 1..(Len(seq) - 1) |-> IF k < i THEN seq[k] ELSE seq[k + 1]]

\* Voucher.deleteOne({ voucherNo, email }): the first match goes, if there is one.
DeleteOne(voucherNo, email) ==
    LET I == {i \in DOMAIN vouchers :
                 vouchers[i].voucherNo = voucherNo /\ vouchers[i].email = email}
    IN  IF I = {} THEN vouchers ELSE Without(vouchers, Min(I))

\* Voucher.updateOne({ _id, email }, { ...fields, pdfLink, pdfFileId }): no
\* schema validation runs on an update.
UpdateOne(id, email, data, pdfLink, pdfFileId) ==
    [i \in DOMAIN vouchers |->
        IF vouchers[i].id = id /\ vouchers[i].email = email
        THEN [vouchers[i] EXCEPT !.data = data, !.pdfLink = pdfLink, !.pdfFileId = pdfFileId]
        ELSE vouchers[i]]

\* Rows as the sheet holds them: empty rows at the end are no rows.
RECURSIVE Trim(_)
Trim(rows) ==
    IF rows # <<>> /\ rows[Len(rows)] = EmptyRow
    THEN Trim(SubSeq(rows, 1, Len(rows) - 1))
    ELSE rows

\* values.update on the range A{i+1}:O{i+1}: data row i is overwritten (rows the
\* sheet does not hold yet are empty).
SetRow(rows, i, row) ==
    [k \in 1..(IF i > Len(rows) THEN i ELSE Len(rows)) |->
        IF k = i THEN row ELSE IF k <= Len(rows) THEN rows[k] ELSE EmptyRow]

\* Mutant: the row is removed and the rows below it move up.
ClearRowRemoving(rows, i) == Trim(Without(rows, i))

\* values.clear on the range A{i+1}:O{i+1}
ClearRow(rows, i) == Trim(SetRow(rows, i, EmptyRow))

\* Mutant: the last matching row is taken.
FindIndexLast(rows, no) ==
    LET I == {i \in DOMAIN rows : rows[i].no = no}
    IN  IF I = {} THEN -1 ELSE (CHOOSE m \in I : \A k \in I : k <= m) - 1

\* rows.findIndex((row) => row[0] == voucherNo), 0-based, -1 when absent
FindIndex(rows, no) ==
    LET I == {i \in DOMAIN rows : rows[i].no = no}
    IN  IF I = {} THEN -1 ELSE Min(I) - 1

\* The sheet a range `${title}!...` of a spreadsheet names, if there is one.
HasSheet(id, title) == id \in DOMAIN sheets /\ sheets[id].title = title

\* ------------------------------------------------------------------ init
Init ==
    /\ vouchers = <<>>
    /\ nextId = 1
    /\ sheets = <<>>
    /\ folders = 0
    /\ files = <<>>
    /\ sessionUser = [x \in Sessions |-> NoUser]
    /\ req = [s \in Slots |-> Idle]
    /\ nreq = 0
    /\ nfail = 0
    /\ lastNo = [p \in Owners \X Companies |-> 0]
    /\ ver = 0
    /\ disk = {}

\* A request arrives and takes slot s.
Arrives(s) ==
    /\ FreeSlot(s)
    /\ nreq' = nreq + 1

\* ------------------------------------------------------------------ shared steps
\* Mutant: a failed exchange is not thrown, the token's user is taken as resolved.
UserInfoUnchecked(s) ==
    LET r == req[s] IN
    /\ r.pc = "userinfo"
    /\ \E ok \in Outcomes(TRUE) :
         /\ Counted(TRUE, ok)
         /\ req' = [req EXCEPT ![s] =
                      [r EXCEPT !.user = r.bearer, !.auth = TRUE,
                                !.pc = AfterAuth(r.op),
                                !.sid = NoSession, !.bearer = NoToken,
                                !.calls = Called(r, "userinfo", ok)]]
         /\ sessionUser' = IF r.sid # NoSession
                           THEN [sessionUser EXCEPT ![r.sid] = r.bearer]
                           ELSE sessionUser
    /\ UNCHANGED <<stores, nreq, lastNo, ver, disk>>

\* authenticateGoogle: userinfo.get() returns; req.session.user = user.
UserInfo(s) ==
    LET r == req[s] IN
    /\ r.pc = "userinfo"
    /\ \E ok \in Outcomes(TRUE) :
         /\ Counted(TRUE, ok)
         /\ IF ok
            THEN /\ req' = [req EXCEPT ![s] =
                              [r EXCEPT !.user = r.bearer, !.auth = TRUE,
                                        !.pc = AfterAuth(r.op),
                                        !.sid = NoSession, !.bearer = NoToken,
                                        !.calls = Called(r, "userinfo", TRUE)]]
                 /\ sessionUser' = IF r.sid # NoSession
                                   THEN [sessionUser EXCEPT ![r.sid] = r.bearer]
                                   ELSE sessionUser
            ELSE Send(s, [r EXCEPT !.calls = Called(r, "userinfo", FALSE)],
                      FailStatus(r.op), 0)
    /\ UNCHANGED <<stores, nreq, lastNo, ver, disk>>

\* getUserResources: the first findOne returns.
FindExisting(s) ==
    LET r == req[s]
        existingVoucher == FindOneByCompany(r.user, r.filter)
    IN
    /\ r.pc = "findExisting"
    /\ \E ok \in Outcomes(TRUE) :
         /\ Counted(TRUE, ok)
         /\ IF ~ok
            THEN Send(s, [r EXCEPT !.calls = Called(r, "findOne", FALSE)], 500, 0)
            ELSE IF existingVoucher # NoVoucher
            THEN Await(s, [r EXCEPT !.spreadsheetId = existingVoucher.spreadsheetId,
                                    !.folderId = existingVoucher.folderId,
                                    !.pc = "findHighest",
                                    !.calls = Called(r, "findOne", TRUE)])
            ELSE Await(s, [r EXCEPT !.pc = "createSpreadsheet",
                                    !.calls = Called(r, "findOne", TRUE)])
    /\ UNCHANGED <<stores, nreq, lastNo, ver, disk>>

\* createSpreadsheet: spreadsheets.create returns, then values.update of the
\* header row (a spreadsheet whose header write failed stays, without header).
CreateSpreadsheet(s) ==
    LET r == req[s]
        id == Len(sheets) + 1
    IN
    /\ r.pc = "createSpreadsheet"
    /\ \E created \in Outcomes(HasAuth(r)) :
         IF ~created
         THEN /\ Counted(HasAuth(r), FALSE)
              /\ UNCHANGED sheets
              /\ Send(s, [r EXCEPT !.calls = Called(r, "createSpreadsheet", FALSE)], 500, 0)
         ELSE \E headed \in Outcomes(TRUE) :
              /\ Counted(TRUE, headed)
              /\ sheets' = Append(sheets, [title |-> r.filter, header |-> headed,
                                           rows |-> <<>>])
              /\ IF headed
                 THEN Await(s, [r EXCEPT !.spreadsheetId = id, !.pc = "createDriveFolder",
                                         !.calls = Called(r, "createSpreadsheet", TRUE)])
                 ELSE Send(s, [r EXCEPT !.calls = Called(r, "createSpreadsheet", FALSE)],
                           500, 0)
    /\ UNCHANGED <<vouchers, nextId, folders, files, nreq, lastNo, ver, disk>>

\* Mutant: when the folder cannot be created the spreadsheet created before it
\* is removed again.
CreateDriveFolderCleaningUp(s) ==
    LET r == req[s] IN
    /\ r.pc = "createDriveFolder"
    /\ \E ok \in Outcomes(HasAuth(r)) :
         /\ Counted(HasAuth(r), ok)
         /\ IF ok
            THEN /\ folders' = folders + 1
                 /\ UNCHANGED sheets
                 /\ Await(s, [r EXCEPT !.folderId = folders + 1, !.pc = "findHighest",
                                       !.calls = Called(r, "createDriveFolder", TRUE)])
            ELSE /\ UNCHANGED folders
                 /\ sheets' = SubSeq(sheets, 1, r.spreadsheetId - 1)
                 /\ Send(s, [r EXCEPT !.calls = Called(r, "createDriveFolder", FALSE)], 500, 0)
    /\ UNCHANGED <<vouchers, nextId, files, nreq, lastNo, ver, disk>>

\* createDriveFolder: drive.files.create of the folder returns.
CreateDriveFolder(s) ==
    LET r == req[s] IN
    /\ r.pc = "createDriveFolder"
    /\ \E ok \in Outcomes(HasAuth(r)) :
         /\ Counted(HasAuth(r), ok)
         /\ IF ok
            THEN /\ folders' = folders + 1
                 /\ Await(s, [r EXCEPT !.folderId = folders + 1, !.pc = "findHighest",
                                       !.calls = Called(r, "createDriveFolder", TRUE)])
            ELSE /\ UNCHANGED folders
                 /\ Send(s, [r EXCEPT !.calls = Called(r, "createDriveFolder", FALSE)], 500, 0)
    /\ UNCHANGED <<vouchers, nextId, sheets, files, nreq, lastNo, ver, disk>>

\* getUserResources: the sorted findOne returns; /get-voucher-no answers with the
\* number, /submit picks its number and starts to render the document.
FindHighest(s) ==
    LET r == req[s]
        voucherNumber == NextNumber(r)
        r1 == [r EXCEPT !.voucherNumber = voucherNumber, !.readVer = ver,
                        !.calls = Called(r, "findHighest", TRUE)]
    IN
    /\ r.pc = "findHighest"
    /\ \E ok \in Outcomes(TRUE) :
         /\ Counted(TRUE, ok)
         /\ IF ~ok
            THEN Send(s, [r EXCEPT !.calls = Called(r, "findHighest", FALSE)], 500, 0)
            ELSE IF r.op = "getno"
            THEN Send(s, r1, 200, voucherNumber)
            ELSE Await(s, [r1 EXCEPT !.voucherNo = ChosenNo(r.bodyNo, voucherNumber),
                                     !.pc = "render"])
    /\ UNCHANGED <<stores, nreq, lastNo, ver, disk>>

\* ------------------------------------------------------------------ /get-voucher-no
GetVoucherNo(s, sid, bearer, filter) ==
      LET r == [Idle EXCEPT !.op = "getno", !.sid = sid, !.bearer = bearer,
                            !.filter = filter]
      IN
      /\ Arrives(s)
      /\ IF ~ValidFilter(filter)
         THEN Send(s, r, 400, 0)
         ELSE Authenticate(s, r)
      /\ UNCHANGED <<stores, nfail, lastNo, ver, disk>>

\* ------------------------------------------------------------------ /submit
SubmitStart(s, sid, bearer, filter, bodyNo, data) ==
      LET r == [Idle EXCEPT !.op = "submit", !.sid = sid, !.bearer = bearer,
                            !.filter = filter, !.bodyNo = bodyNo, !.data = data]
      IN
      /\ Arrives(s)
      /\ IF ~ValidFilter(filter)
         THEN Send(s, r, 400, 0)
         ELSE Authenticate(s, r)
      /\ UNCHANGED <<stores, nfail, lastNo, ver, disk>>

\* pdfFilePath: `${filterOption}_${voucherNo}.pdf` in the server's directory.
PdfFilePath(r) == <<r.filter, r.voucherNo>>

\* The write stream of the rendered document finishes, or fails and the
\* pdfStream "error" handler answers.
SubmitRender(s) ==
    LET r == req[s] IN
    /\ r.pc = "render"
    /\ r.op = "submit"
    /\ \E ok \in Outcomes(TRUE) :
         /\ Counted(TRUE, ok)
         /\ IF ok
            THEN /\ disk' = disk \cup {PdfFilePath(r)}
                 /\ Await(s, [r EXCEPT !.pc = "upload"])
            ELSE /\ UNCHANGED disk
                 /\ Send(s, [r EXCEPT !.calls = Called(r, "render", FALSE)], 500, 0)
    /\ UNCHANGED <<stores, nreq, lastNo, ver>>

\* Mutant: a failed upload is not thrown, the handler goes on to the sheet.
SubmitUploadContinues(s) ==
    LET r == req[s]
        id == Len(files) + 1
        can == HasAuth(r) /\ PdfFilePath(r) \in disk
    IN
    /\ r.pc = "upload"
    /\ r.op = "submit"
    /\ \E ok \in Outcomes(can) :
         /\ Counted(can, ok)
         /\ IF ok
            THEN /\ files' = Append(files, [parent |-> r.folderId, content |-> Pdf(r),
                                            live |-> TRUE])
                 /\ Await(s, [r EXCEPT !.pdfFileId = id, !.pc = "append",
                                       !.calls = Called(r, "upload", TRUE)])
            ELSE /\ UNCHANGED files
                 /\ Await(s, [r EXCEPT !.pc = "append",
                                       !.calls = Called(r, "upload", FALSE)])
    /\ UNCHANGED <<vouchers, nextId, sheets, folders, nreq, lastNo, ver, disk>>

\* finish handler: drive.files.create of the document returns; its body is read
\* from the rendered file.
SubmitUpload(s) ==
    LET r == req[s]
        id == Len(files) + 1
        can == HasAuth(r) /\ PdfFilePath(r) \in disk
    IN
    /\ r.pc = "upload"
    /\ r.op = "submit"
    /\ \E ok \in Outcomes(can) :
         /\ Counted(can, ok)
         /\ IF ok
            THEN /\ files' = Append(files, [parent |-> r.folderId, content |-> Pdf(r),
                                            live |-> TRUE])
                 /\ Await(s, [r EXCEPT !.pdfFileId = id, !.pc = "append",
                                       !.calls = Called(r, "upload", TRUE)])
            ELSE /\ UNCHANGED files
                 /\ Send(s, [r EXCEPT !.calls = Called(r, "upload", FALSE)], 500, 0)
    /\ UNCHANGED <<vouchers, nextId, sheets, folders, nreq, lastNo, ver, disk>>

\* The 13 cells the handlers write for a voucher.
Row(r) ==
    [no |-> r.voucherNo, filter |-> r.filter, data |-> r.data, link |-> Link(r.pdfFileId)]

\* Mutant: a failed append is not thrown, the handler goes on to save the record.
SubmitAppendSwallowed(s) ==
    LET r == req[s]
        can == HasAuth(r) /\ HasSheet(r.spreadsheetId, r.filter)
    IN
    /\ r.pc = "append"
    /\ \E ok \in Outcomes(can) :
         /\ Counted(can, ok)
         /\ IF ok
            THEN /\ sheets' = [sheets EXCEPT ![r.spreadsheetId].rows = Append(@, Row(r))]
                 /\ Await(s, [r EXCEPT !.pc = "save", !.calls = Called(r, "append", TRUE)])
            ELSE /\ UNCHANGED sheets
                 /\ Await(s, [r EXCEPT !.pc = "save", !.calls = Called(r, "append", FALSE)])
    /\ UNCHANGED <<vouchers, nextId, folders, files, nreq, lastNo, ver, disk>>

\* finish handler: sheets.spreadsheets.values.append returns.
SubmitAppend(s) ==
    LET r == req[s]
        can == HasAuth(r) /\ HasSheet(r.spreadsheetId, r.filter)
    IN
    /\ r.pc = "append"
    /\ \E ok \in Outcomes(can) :
         /\ Counted(can, ok)
         /\ IF ok
            THEN /\ sheets' = [sheets EXCEPT ![r.spreadsheetId].rows = Append(@, Row(r))]
                 /\ Await(s, [r EXCEPT !.pc = "save", !.calls = Called(r, "append", TRUE)])
            ELSE /\ UNCHANGED sheets
                 /\ Send(s, [r EXCEPT !.calls = Called(r, "append", FALSE)], 500, 0)
    /\ UNCHANGED <<vouchers, nextId, folders, files, nreq, lastNo, ver, disk>>

\* fs.unlinkSync(pdfFilePath), then the success response; unlinkSync throws when
\* the file is not there, and the catch of the finish handler answers 500.
Unlink(s, r) ==
    IF PdfFilePath(r) \in disk
    THEN /\ disk' = disk \ {PdfFilePath(r)}
         /\ Send(s, r, 200, r.pdfFileId)
    ELSE /\ UNCHANGED disk
         /\ Send(s, r, 500, 0)

\* new Voucher({...}): the record the finish handler saves.
NewVoucher(r) ==
    [id |-> nextId, email |-> r.user, company |-> r.filter, voucherNo |-> r.voucherNo,
     data |-> r.data, pdfLink |-> Link(r.pdfFileId), spreadsheetId |-> r.spreadsheetId,
     folderId |-> r.folderId, pdfFileId |-> r.pdfFileId]

\* voucher.save() validates against voucherSchema before it writes.
Valid(v) == v.data.transactionType \in TransactionTypes

\* finish handler: voucher.save() returns; then the rendered file is removed and
\* the success response sent.
SubmitSave(s) ==
    LET r == req[s]
        voucher == NewVoucher(r)
    IN
    /\ r.pc = "save"
    /\ \E ok \in Outcomes(Valid(voucher)) :
         /\ Counted(Valid(voucher), ok)
         /\ IF ok
            THEN /\ vouchers' = Append(vouchers, voucher)
                 /\ nextId' = nextId + 1
                 /\ lastNo' = [lastNo EXCEPT ![<<r.user, r.filter>>] = r.voucherNo]
                 /\ ver' = ver + 1
                 /\ Unlink(s, [r EXCEPT !.calls = Called(r, "save", TRUE)])
            ELSE /\ UNCHANGED <<vouchers, nextId, lastNo, ver, disk>>
                 /\ Send(s, [r EXCEPT !.calls = Called(r, "save", FALSE)], 500, 0)
    /\ UNCHANGED <<sheets, folders, files, nreq>>

\* ------------------------------------------------------------------ /edit-voucher/:id
EditStart(s, sid, bearer, filter, id, data) ==
      LET r == [Idle EXCEPT !.op = "edit", !.sid = sid, !.bearer = bearer,
                            !.filter = filter, !.param = id, !.data = data]
      IN
      /\ Arrives(s)
      /\ IF ~ValidFilter(filter)
         THEN Send(s, r, 400, 0)
         ELSE Authenticate(s, r)
      /\ UNCHANGED <<stores, nfail, lastNo, ver, disk>>

\* Voucher.findOne({ _id, email }) returns; the handler starts to render.
EditFind(s) ==
    LET r == req[s]
        existingVoucher == FindOneById(r.param, r.user)
    IN
    /\ r.pc = "editFind"
    /\ \E ok \in Outcomes(TRUE) :
         /\ Counted(TRUE, ok)
         /\ IF ~ok
            THEN Send(s, [r EXCEPT !.calls = Called(r, "findOne", FALSE)], 500, 0)
            ELSE IF existingVoucher = NoVoucher
            THEN Send(s, [r EXCEPT !.calls = Called(r, "findOne", TRUE)], 404, 0)
            ELSE Await(s, [r EXCEPT !.existing = existingVoucher,
                                    !.spreadsheetId = existingVoucher.spreadsheetId,
                                    !.folderId = existingVoucher.folderId,
                                    !.voucherNo = existingVoucher.voucherNo,
                                    !.pc = "render",
                                    !.calls = Called(r, "findOne", TRUE)])
    /\ UNCHANGED <<stores, nreq, lastNo, ver, disk>>

\* The write stream finishes and the finish handler runs up to its first await;
\* or it fails: this handler registers no "error" listener, the error is thrown
\* and the process dies with every request in flight and the session store.
EditRender(s) ==
    LET r == req[s] IN
    /\ r.pc = "render"
    /\ r.op = "edit"
    /\ \E ok \in Outcomes(TRUE) :
         /\ Counted(TRUE, ok)
         /\ IF ok
            THEN /\ disk' = disk \cup {PdfFilePath(r)}
                 /\ Await(s, [r EXCEPT !.pc = IF r.existing.pdfFileId # 0
                                                THEN "deleteOld" ELSE "upload"])
            ELSE /\ UNCHANGED disk
                 /\ req' = [t \in Slots |->
                              IF Active(t) THEN Over(req[t]) ELSE req[t]]
                 /\ sessionUser' = [x \in Sessions |-> NoUser]
    /\ UNCHANGED <<stores, nreq, lastNo, ver>>

\* Mutant: the old document is left in the folder.
EditDeleteOldSkipped(s) ==
    LET r == req[s]
        can == HasAuth(r) /\ Live(r.existing.pdfFileId)
    IN
    /\ r.pc = "deleteOld"
    /\ \E ok \in Outcomes(can) :
         /\ Counted(can, ok)
         /\ UNCHANGED files
         /\ IF ok
            THEN Await(s, [r EXCEPT !.pc = "upload", !.calls = Called(r, "deleteFile", TRUE)])
            ELSE Send(s, [r EXCEPT !.calls = Called(r, "deleteFile", FALSE)], 500, 0)
    /\ UNCHANGED <<vouchers, nextId, sheets, folders, nreq, lastNo, ver, disk>>

\* finish handler: drive.files.delete of the old document returns.
EditDeleteOld(s) ==
    LET r == req[s]
        can == HasAuth(r) /\ Live(r.existing.pdfFileId)
    IN
    /\ r.pc = "deleteOld"
    /\ \E ok \in Outcomes(can) :
         /\ Counted(can, ok)
         /\ IF ok
            THEN /\ files' = [files EXCEPT ![r.existing.pdfFileId].live = FALSE]
                 /\ Await(s, [r EXCEPT !.pc = "upload", !.calls = Called(r, "deleteFile", TRUE)])
            ELSE /\ UNCHANGED files
                 /\ Send(s, [r EXCEPT !.calls = Called(r, "deleteFile", FALSE)], 500, 0)
    /\ UNCHANGED <<vouchers, nextId, sheets, folders, nreq, lastNo, ver, disk>>

\* finish handler: drive.files.create of the new document returns; its body is
\* read from the rendered file.
EditUpload(s) ==
    LET r == req[s]
        id == Len(files) + 1
        can == HasAuth(r) /\ PdfFilePath(r) \in disk
    IN
    /\ r.pc = "upload"
    /\ r.op = "edit"
    /\ \E ok \in Outcomes(can) :
         /\ Counted(can, ok)
         /\ IF ok
            THEN /\ files' = Append(files, [parent |-> r.folderId, content |-> Pdf(r),
                                            live |-> TRUE])
                 /\ Await(s, [r EXCEPT !.pdfFileId = id, !.pc = "sheetGet",
                                       !.calls = Called(r, "upload", TRUE)])
            ELSE /\ UNCHANGED files
                 /\ Send(s, [r EXCEPT !.calls = Called(r, "upload", FALSE)], 500, 0)
    /\ UNCHANGED <<vouchers, nextId, sheets, folders, nreq, lastNo, ver, disk>>

\* Mutant: a row that is not found is skipped, the edit goes on to the record.
EditSheetGetForgiving(s) ==
    LET r == req[s]
        can == HasAuth(r) /\ HasSheet(r.spreadsheetId, r.filter)
        rowIndex == FindIndex(sheets[r.spreadsheetId].rows, r.voucherNo)
    IN
    /\ r.pc = "sheetGet"
    /\ \E ok \in Outcomes(can) :
         /\ Counted(can, ok)
         /\ IF ~ok
            THEN Send(s, [r EXCEPT !.calls = Called(r, "sheetGet", FALSE)], 500, 0)
            ELSE Await(s, [r EXCEPT !.rowIndex = rowIndex,
                                    !.pc = IF rowIndex # -1 THEN "sheetUpdate" ELSE "updateOne",
                                    !.calls = Called(r, "sheetGet", TRUE)])
    /\ UNCHANGED <<stores, nreq, lastNo, ver, disk>>

\* finish handler: values.get of `${filter}!A2:O` returns and the row is looked up.
EditSheetGet(s) ==
    LET r == req[s]
        can == HasAuth(r) /\ HasSheet(r.spreadsheetId, r.filter)
        rowIndex == FindIndex(sheets[r.spreadsheetId].rows, r.voucherNo)
    IN
    /\ r.pc = "sheetGet"
    /\ \E ok \in Outcomes(can) :
         /\ Counted(can, ok)
         /\ IF ~ok
            THEN Send(s, [r EXCEPT !.calls = Called(r, "sheetGet", FALSE)], 500, 0)
            ELSE IF rowIndex = -1
            THEN Send(s, [r EXCEPT !.calls = Called(r, "sheetGet", TRUE)], 500, 0)
            ELSE Await(s, [r EXCEPT !.rowIndex = rowIndex, !.pc = "sheetUpdate",
                                    !.calls = Called(r, "sheetGet", TRUE)])
    /\ UNCHANGED <<stores, nreq, lastNo, ver, disk>>

\* finish handler: values.update of the row range returns.
EditSheetUpdate(s) ==
    LET r == req[s]
        can == HasAuth(r) /\ HasSheet(r.spreadsheetId, r.filter)
    IN
    /\ r.pc = "sheetUpdate"
    /\ \E ok \in Outcomes(can) :
         /\ Counted(can, ok)
         /\ IF ok
            THEN /\ sheets' = [sheets EXCEPT ![r.spreadsheetId].rows =
                                  SetRow(@, r.rowIndex + 1, Row(r))]
                 /\ Await(s, [r EXCEPT !.pc = "updateOne",
                                       !.calls = Called(r, "sheetUpdate", TRUE)])
            ELSE /\ UNCHANGED sheets
                 /\ Send(s, [r EXCEPT !.calls = Called(r, "sheetUpdate", FALSE)], 500, 0)
    /\ UNCHANGED <<vouchers, nextId, folders, files, nreq, lastNo, ver, disk>>

\* finish handler: Voucher.updateOne returns; then the success response.
EditUpdateOne(s) ==
    LET r == req[s] IN
    /\ r.pc = "updateOne"
    /\ \E ok \in Outcomes(TRUE) :
         /\ Counted(TRUE, ok)
         /\ IF ok
            THEN /\ vouchers' = UpdateOne(r.param, r.user, r.data, Link(r.pdfFileId),
                                          r.pdfFileId)
                 /\ Unlink(s, [r EXCEPT !.calls = Called(r, "updateOne", TRUE)])
            ELSE /\ UNCHANGED <<vouchers, disk>>
                 /\ Send(s, [r EXCEPT !.calls = Called(r, "updateOne", FALSE)], 500, 0)
    /\ UNCHANGED <<nextId, sheets, folders, files, nreq, lastNo, ver>>

\* ------------------------------------------------------------------ DELETE /vouchers/:voucherNo
DeleteStart(s, sid, bearer, voucherNo) ==
      LET r == [Idle EXCEPT !.op = "delete", !.sid = sid, !.bearer = bearer,
                            !.param = voucherNo, !.voucherNo = voucherNo]
      IN
      /\ Arrives(s)
      /\ Authenticate(s, r)
      /\ UNCHANGED <<stores, nfail, lastNo, ver, disk>>

\* Voucher.findOne({ voucherNo, email }) returns.
DeleteFind(s) ==
    LET r == req[s]
        existingVoucher == FindOneByNo(r.voucherNo, r.user)
    IN
    /\ r.pc = "deleteFind"
    /\ \E ok \in Outcomes(TRUE) :
         /\ Counted(TRUE, ok)
         /\ IF ~ok
            THEN Send(s, [r EXCEPT !.calls = Called(r, "findOne", FALSE)], 500, 0)
            ELSE IF existingVoucher = NoVoucher
            THEN Send(s, [r EXCEPT !.calls = Called(r, "findOne", TRUE)], 404, 0)
            ELSE Await(s, [r EXCEPT !.existing = existingVoucher,
                                    !.spreadsheetId = existingVoucher.spreadsheetId,
                                    !.folderId = existingVoucher.folderId,
                                    !.filter = existingVoucher.company,
                                    !.pc = IF existingVoucher.pdfFileId # 0
                                           THEN "deleteFile" ELSE "deleteSheetGet",
                                    !.calls = Called(r, "findOne", TRUE)])
    /\ UNCHANGED <<stores, nreq, lastNo, ver, disk>>

\* drive.files.delete of the document returns.
DeleteFile(s) ==
    LET r == req[s]
        can == HasAuth(r) /\ Live(r.existing.pdfFileId)
    IN
    /\ r.pc = "deleteFile"
    /\ \E ok \in Outcomes(can) :
         /\ Counted(can, ok)
         /\ IF ok
            THEN /\ files' = [files EXCEPT ![r.existing.pdfFileId].live = FALSE]
                 /\ Await(s, [r EXCEPT !.pc = "deleteSheetGet",
                                       !.calls = Called(r, "deleteFile", TRUE)])
            ELSE /\ UNCHANGED files
                 /\ Send(s, [r EXCEPT !.calls = Called(r, "deleteFile", FALSE)], 500, 0)
    /\ UNCHANGED <<vouchers, nextId, sheets, folders, nreq, lastNo, ver, disk>>

\* Mutant: a row that is not found is an error, as it is in the edit handler.
DeleteSheetGetStrict(s) ==
    LET r == req[s]
        can == HasAuth(r) /\ HasSheet(r.spreadsheetId, r.filter)
        rowIndex == FindIndex(sheets[r.spreadsheetId].rows, r.voucherNo)
    IN
    /\ r.pc = "deleteSheetGet"
    /\ \E ok \in Outcomes(can) :
         /\ Counted(can, ok)
         /\ IF ~ok
            THEN Send(s, [r EXCEPT !.calls = Called(r, "sheetGet", FALSE)], 500, 0)
            ELSE IF rowIndex = -1
            THEN Send(s, [r EXCEPT !.calls = Called(r, "sheetGet", TRUE)], 500, 0)
            ELSE Await(s, [r EXCEPT !.rowIndex = rowIndex, !.pc = "deleteClear",
                                    !.calls = Called(r, "sheetGet", TRUE)])
    /\ UNCHANGED <<stores, nreq, lastNo, ver, disk>>

\* values.get of `${company}!A2:O` returns and the row is looked up.
DeleteSheetGet(s) ==
    LET r == req[s]
        can == HasAuth(r) /\ HasSheet(r.spreadsheetId, r.filter)
        rowIndex == FindIndex(sheets[r.spreadsheetId].rows, r.voucherNo)
    IN
    /\ r.pc = "deleteSheetGet"
    /\ \E ok \in Outcomes(can) :
         /\ Counted(can, ok)
         /\ IF ~ok
            THEN Send(s, [r EXCEPT !.calls = Called(r, "sheetGet", FALSE)], 500, 0)
            ELSE Await(s, [r EXCEPT !.rowIndex = rowIndex,
                                    !.pc = IF rowIndex # -1 THEN "deleteClear" ELSE "deleteOne",
                                    !.calls = Called(r, "sheetGet", TRUE)])
    /\ UNCHANGED <<stores, nreq, lastNo, ver, disk>>

\* Mutant: a failed values.clear is not thrown, the handler goes on to deleteOne.
DeleteClearSwallowed(s) ==
    LET r == req[s]
        can == HasAuth(r) /\ HasSheet(r.spreadsheetId, r.filter)
    IN
    /\ r.pc = "deleteClear"
    /\ \E ok \in Outcomes(can) :
         /\ Counted(can, ok)
         /\ IF ok
            THEN /\ sheets' = [sheets EXCEPT ![r.spreadsheetId].rows =
                                  ClearRow(@, r.rowIndex + 1)]
                 /\ Await(s, [r EXCEPT !.pc = "deleteOne",
                                       !.calls = Called(r, "sheetClear", TRUE)])
            ELSE /\ UNCHANGED sheets
                 /\ Await(s, [r EXCEPT !.pc = "deleteOne",
                                       !.calls = Called(r, "sheetClear", FALSE)])
    /\ UNCHANGED <<vouchers, nextId, folders, files, nreq, lastNo, ver, disk>>

\* values.clear of the row range returns.
DeleteClear(s) ==
    LET r == req[s]
        can == HasAuth(r) /\ HasSheet(r.spreadsheetId, r.filter)
    IN
    /\ r.pc = "deleteClear"
    /\ \E ok \in Outcomes(can) :
         /\ Counted(can, ok)
         /\ IF ok
            THEN /\ sheets' = [sheets EXCEPT ![r.spreadsheetId].rows =
                                  ClearRow(@, r.rowIndex + 1)]
                 /\ Await(s, [r EXCEPT !.pc = "deleteOne",
                                       !.calls = Called(r, "sheetClear", TRUE)])
            ELSE /\ UNCHANGED sheets
                 /\ Send(s, [r EXCEPT !.calls = Called(r, "sheetClear", FALSE)], 500, 0)
    /\ UNCHANGED <<vouchers, nextId, folders, files, nreq, lastNo, ver, disk>>

\* Voucher.deleteOne({ voucherNo, email }) returns; then the success response.
DeleteRecord(s) ==
    LET r == req[s] IN
    /\ r.pc = "deleteOne"
    /\ \E ok \in Outcomes(TRUE) :
         /\ Counted(TRUE, ok)
         /\ IF ok
            THEN /\ vouchers' = DeleteOne(r.voucherNo, r.user)
                 /\ ver' = IF vouchers' # vouchers THEN ver + 1 ELSE ver
                 /\ Send(s, [r EXCEPT !.calls = Called(r, "deleteOne", TRUE)], 200, 0)
            ELSE /\ UNCHANGED <<vouchers, ver>>
                 /\ Send(s, [r EXCEPT !.calls = Called(r, "deleteOne", FALSE)], 500, 0)
    /\ UNCHANGED <<nextId, sheets, folders, files, nreq, lastNo, disk>>

\* ------------------------------------------------------------------ GET /vouchers
\* The characters of the amounts requests carry (amount is a String in the schema).
Digits(amount) ==
    CASE amount = "500" -> <<5, 0, 0>>
      [] amount = "75" -> <<7, 5>>
      [] OTHER -> <<>>

\* Mutant: amounts are compared by their numeric value.
LexLessNumeric(a, b) ==
    LET Value(d) == IF Len(d) = 3 THEN 100 * d[1] + 10 * d[2] + d[3]
                    ELSE IF Len(d) = 2 THEN 10 * d[1] + d[2] ELSE 0
    IN  Value(a) < Value(b)

\* String order, as MongoDB sorts a String field: by the first character that
\* differs, a proper prefix first.
LexLess(a, b) ==
    \E k \in 1..(Len(b)) :
        /\ \A j \in 1..(k - 1) : j <= Len(a) /\ a[j] = b[j]
        /\ (k > Len(a) \/ a[k] < b[k])

\* Mutant: the query does not name the owner.
FindAnyOwner(vs, email, company, date) ==
    {i \in DOMAIN vs :
        /\ company # "" => vs[i].company = company
        /\ date # "" => vs[i].data.date = date}

\* query = { email }, with company and date when the request gives them.
Find(vs, email, company, date) ==
    {i \in DOMAIN vs :
        /\ vs[i].email = email
        /\ company # "" => vs[i].company = company
        /\ date # "" => vs[i].data.date = date}

\* sortOption: amount ascending, amount descending, else voucherNo ascending.
Before(v, w, sort) ==
    CASE sort = "lowToHigh" -> LexLess(Digits(v.data.amount), Digits(w.data.amount))
      [] sort = "highToLow" -> LexLess(Digits(w.data.amount), Digits(v.data.amount))
      [] OTHER -> v.voucherNo < w.voucherNo

\* Mutant: the matching records come in insertion order, unsorted.
FindSortedNatural(vs, email, company, date, sort) ==
    LET I == Find(vs, email, company, date)
        n == Cardinality(I)
    IN  {[k \in 1..n |-> vs[p[k]]] :
            p \in {q \in [1..n -> I] : \A j, k \in 1..n : j < k => q[j] < q[k]}}

\* Voucher.find(query).sort(sortOption): the matching records in an order the
\* sort key allows (records with equal keys come in any order).
FindSorted(vs, email, company, date, sort) ==
    LET I == Find(vs, email, company, date)
        n == Cardinality(I)
    IN  {[k \in 1..n |-> vs[p[k]]] :
            p \in {q \in [1..n -> I] :
                     /\ \A j, k \in 1..n : j # k => q[j] # q[k]
                     /\ \A j, k \in 1..n : j < k => ~Before(vs[q[k]], vs[q[j]], sort)}}

ListStart(s, sid, bearer, company, date, sort) ==
      LET r == [Idle EXCEPT !.op = "list", !.sid = sid, !.bearer = bearer,
                            !.filter = company, !.data = [NoData EXCEPT !.date = date],
                            !.sort = sort]
      IN
      /\ Arrives(s)
      /\ Authenticate(s, r)
      /\ UNCHANGED <<stores, nfail, lastNo, ver, disk>>

\* Voucher.find(query).sort(sortOption) returns; res.status(200).send(vouchers).
ListFind(s) ==
    LET r == req[s] IN
    /\ r.pc = "listFind"
    /\ \E ok \in Outcomes(TRUE) :
         /\ Counted(TRUE, ok)
         /\ IF ok
            THEN \E found \in FindSorted(vouchers, r.user, r.filter, r.data.date, r.sort) :
                    /\ req' = [req EXCEPT ![s] =
                                 [Over([r EXCEPT !.calls = Called(r, "find", TRUE)])
                                    EXCEPT !.status = 200, !.listed = found,
                                           !.sort = r.sort, !.data = r.data]]
                    /\ UNCHANGED sessionUser
            ELSE Send(s, [r EXCEPT !.calls = Called(r, "find", FALSE)], 500, 0)
    /\ UNCHANGED <<stores, nreq, lastNo, ver, disk>>

\* ------------------------------------------------------------------ GET /check-session
CheckSession(s, sid, bearer) ==
      LET r == [Idle EXCEPT !.op = "check", !.sid = sid, !.bearer = bearer] IN
      /\ Arrives(s)
      /\ Authenticate(s, r)
      /\ UNCHANGED <<stores, nfail, lastNo, ver, disk>>

\* authenticateGoogle has returned: res.status(200).send({ email, name, ... }).
CheckSessionSend(s) ==
    /\ req[s].pc = "checkSend"
    /\ Send(s, req[s], 200, 0)
    /\ UNCHANGED <<stores, nreq, nfail, lastNo, ver, disk>>

\* ------------------------------------------------------------------ POST /logout
\* Mutant: the 200 response is sent and the session is left in the store.
LogoutKeepsSession(s, sid) ==
    LET r == [Idle EXCEPT !.op = "logout",
                          !.user = IF sid \in Sessions THEN sessionUser[sid] ELSE NoUser]
    IN
    /\ Arrives(s)
    /\ \E ok \in Outcomes(TRUE) :
         /\ Counted(TRUE, ok)
         /\ req' = [req EXCEPT ![s] =
                      [Over(r) EXCEPT !.status = IF ok THEN 200 ELSE 500]]
         /\ UNCHANGED sessionUser
    /\ UNCHANGED <<stores, lastNo, ver, disk>>

\* req.session.destroy: the session is removed from the session store, then
\* res.clearCookie and the 200 response; 500 when destroy reports an error.
Logout(s, sid) ==
    LET r == [Idle EXCEPT !.op = "logout",
                          !.user = IF sid \in Sessions THEN sessionUser[sid] ELSE NoUser]
    IN
    /\ Arrives(s)
    /\ \E ok \in Outcomes(TRUE) :
         /\ Counted(TRUE, ok)
         /\ req' = [req EXCEPT ![s] =
                      [Over(r) EXCEPT !.status = IF ok THEN 200 ELSE 500]]
         /\ sessionUser' = IF ok /\ sid \in Sessions
                           THEN [sessionUser EXCEPT ![sid] = NoUser]
                           ELSE sessionUser
    /\ UNCHANGED <<stores, lastNo, ver, disk>>

\* ------------------------------------------------------------------ the sheet's owner
\* The spreadsheet is created with the user's credentials in the user's own
\* account: between two requests its owner removes a data row by hand (the rows
\* below move up) or clears its cells.
RowChangedOutside(id, i) ==
    /\ NoneActive
    /\ id \in DOMAIN sheets
    /\ i \in DOMAIN sheets[id].rows
    /\ sheets[id].rows[i] # EmptyRow
    /\ \E rows \in {Without(sheets[id].rows, i), ClearRow(sheets[id].rows, i)} :
          sheets' = [sheets EXCEPT ![id].rows = Trim(rows)]
    /\ UNCHANGED <<vouchers, nextId, folders, files, sessionUser, req, nreq, nfail,
                   lastNo, ver, disk>>

\* ------------------------------------------------------------------ next
\* The requests clients send: with or without the session cookie, with or
\* without a bearer token.
Cookies == Sessions \cup {NoSession}
Tokens == Owners \cup {NoToken}

Arrive(s) ==
    \E sid \in Cookies, bearer \in Tokens :
      \/ \E filter \in Filters, bodyNo \in 0..MaxNo, data \in VoucherData :
            SubmitStart(s, sid, bearer, filter, bodyNo, data)
      \/ \E filter \in Filters, id \in 1..MaxNo, data \in VoucherData :
            EditStart(s, sid, bearer, filter, id, data)
      \/ \E voucherNo \in 1..MaxNo :
            DeleteStart(s, sid, bearer, voucherNo)
      \/ \E filter \in Filters \cup {""} :
            GetVoucherNo(s, sid, bearer, filter)

\* Requests with a bearer token and no cookie, for a registered category, with
\* valid fields and no voucher number of their own.
ArrivePlain(s) ==
    \E bearer \in Owners :
      \/ \E filter \in Companies, data \in {d \in VoucherData : d.transactionType \in TransactionTypes} :
            SubmitStart(s, NoSession, bearer, filter, 0, data)
      \/ \E filter \in Companies, id \in 1..MaxNo, data \in VoucherData :
            EditStart(s, NoSession, bearer, filter, id, data)
      \/ \E voucherNo \in 1..MaxNo :
            DeleteStart(s, NoSession, bearer, voucherNo)

Step(s) ==
    \/ UserInfo(s)
    \/ FindExisting(s)
    \/ CreateSpreadsheet(s)
    \/ CreateDriveFolder(s)
    \/ FindHighest(s)
    \/ SubmitRender(s)
    \/ SubmitUpload(s)
    \/ SubmitAppend(s)
    \/ SubmitSave(s)
    \/ EditFind(s)
    \/ EditRender(s)
    \/ EditDeleteOld(s)
    \/ EditUpload(s)
    \/ EditSheetGet(s)
    \/ EditSheetUpdate(s)
    \/ EditUpdateOne(s)
    \/ DeleteFind(s)
    \/ DeleteFile(s)
    \/ DeleteSheetGet(s)
    \/ DeleteClear(s)
    \/ DeleteRecord(s)

\* Requests one at a time: a request arrives only when none is in flight.
Next ==
    \E s \in Slots :
      \/ NoneActive /\ nreq < MaxRequests /\ Arrive(s)
      \/ Step(s)
Spec == Init /\ [][Next]_vars

\* Requests one at a time, none with a voucher number of its own.
NextAlloc ==
    \E s \in Slots :
      \/ NoneActive /\ nreq < MaxAllocRequests /\ ArrivePlain(s)
      \/ Step(s)
SpecAlloc == Init /\ [][NextAlloc]_vars

\* Overlapping requests.
NextConc ==
    \E s \in Slots :
      \/ nreq < MaxOverlapRequests /\ ArrivePlain(s)
      \/ Step(s)
SpecConc == Init /\ [][NextConc]_vars

\* Requests one at a time; between them the owner of a sheet changes its rows.
NextDesync ==
    \/ \E s \in Slots :
         \/ NoneActive /\ nreq < MaxDesyncRequests /\ ArrivePlain(s)
         \/ Step(s)
    \/ \E id \in DOMAIN sheets : \E i \in DOMAIN sheets[id].rows :
         RowChangedOutside(id, i)
SpecDesync == Init /\ [][NextDesync]_vars

\* Overlapping requests of one owner for one company, with valid fields and no
\* voucher number of their own.
ArriveOne(s) ==
    \/ \E data \in {d \in VoucherData : d.transactionType \in TransactionTypes} :
          SubmitStart(s, NoSession, "ann@x.io", "Contentstack", 0, data)
    \/ \E id \in 1..MaxDupNo, data \in VoucherData :
          EditStart(s, NoSession, "ann@x.io", "Contentstack", id, data)
    \/ \E voucherNo \in 1..MaxDupNo :
          DeleteStart(s, NoSession, "ann@x.io", voucherNo)
NextDup ==
    \E s \in Slots :
      \/ nreq < MaxDupRequests /\ ArriveOne(s)
      \/ Step(s)
SpecDup == Init /\ [][NextDup]_vars

\* The list requests clients send.
ArriveList(s) ==
    \E sid \in Cookies, bearer \in Tokens :
      \/ \E company \in {"", "Contentstack"}, date \in {"", "2024-01-01"},
            sort \in {"", "lowToHigh", "highToLow"} :
            ListStart(s, sid, bearer, company, date, sort)
      \/ CheckSession(s, sid, bearer)
      \/ Logout(s, sid)

\* Requests one at a time, list, check-session and logout requests among them.
NextList ==
    \E s \in Slots :
      \/ NoneActive /\ nreq < MaxListRequests /\ (Arrive(s) \/ ArriveList(s))
      \/ Step(s)
      \/ ListFind(s)
      \/ CheckSessionSend(s)
SpecList == Init /\ [][NextList]_vars

\* Vouchers with valid fields whose amounts differ in number of digits.
AmountData ==
    { [date |-> "2024-01-01", amount |-> "500", transactionType |-> "UPI"],
      [date |-> "2024-01-02", amount |-> "75", transactionType |-> "UPI"] }

\* Submits for one company with a bearer token and a voucher number of their
\* own, and list requests with every combination of filters and sort options.
ArriveOrder(s) ==
    \E bearer \in Owners :
      \/ \E bodyNo \in 1..MaxDupNo, data \in AmountData :
            SubmitStart(s, NoSession, bearer, "Contentstack", bodyNo, data)
      \/ \E company \in Companies \cup {""}, date \in {"", "2024-01-01"},
            sort \in {"", "lowToHigh", "highToLow"} :
            ListStart(s, NoSession, bearer, company, date, sort)

\* Requests one at a time: submits that bring their number, and lists.
NextOrder ==
    \E s \in Slots :
      \/ NoneActive /\ nreq < MaxOrderRequests /\ ArriveOrder(s)
      \/ UserInfo(s)
      \/ FindExisting(s)
      \/ CreateSpreadsheet(s)
      \/ CreateDriveFolder(s)
      \/ FindHighest(s)
      \/ SubmitRender(s)
      \/ SubmitUpload(s)
      \/ SubmitAppend(s)
      \/ SubmitSave(s)
      \/ ListFind(s)
SpecOrder == Init /\ [][NextOrder]_vars

\* Requests of one owner with a bearer token: submits for every company with or
\* without a voucher number of their own, edits and deletes.
ArriveOwn(s) ==
    \/ \E filter \in Companies, bodyNo \in 0..MaxDupNo :
          SubmitStart(s, NoSession, "ann@x.io", filter, bodyNo,
                      [date |-> "2024-01-01", amount |-> "500", transactionType |-> "UPI"])
    \/ \E id \in 1..MaxDupNo :
          EditStart(s, NoSession, "ann@x.io", "Contentstack", id,
                    [date |-> "2024-01-02", amount |-> "75", transactionType |-> "UPI"])
    \/ \E voucherNo \in 1..MaxDupNo :
          DeleteStart(s, NoSession, "ann@x.io", voucherNo)

\* Requests of one owner, one at a time.
NextOwn ==
    \E s \in Slots :
      \/ NoneActive /\ nreq < MaxOwnRequests /\ ArriveOwn(s)
      \/ Step(s)
SpecOwn == Init /\ [][NextOwn]_vars

\* Overlapping check-session and logout requests.
NextSess ==
    \E s \in Slots :
      \/ /\ nreq < MaxSessRequests
         /\ \E sid \in Cookies :
              \/ \E bearer \in Tokens : CheckSession(s, sid, bearer)
              \/ Logout(s, sid)
      \/ UserInfo(s)
      \/ CheckSessionSend(s)
SpecSess == Init /\ [][NextSess]_vars

\* ------------------------------------------------------------------ claims
\* The records of a pair in a record store, the numbers they carry.
PairOf(v) == <<v.email, v.company>>
PairRecords(vs, p) == {i \in DOMAIN vs : PairOf(vs[i]) = p}
PairNumbers(vs, p) == {vs[i].voucherNo : i \in PairRecords(vs, p)}

\* This step inserts a record (only voucher.save() of /submit does).
Inserted == Len(vouchers') = Len(vouchers) + 1
NewRecord == vouchers'[Len(vouchers')]

\* Slot s holds an answered request of handler op with this status.
Answered(s, op, status) ==
    req[s].pc = "done" /\ req[s].op = op /\ req[s].status = status

\* C1: with requests one at a time, no two records of the record store have
\* the same (owner email, company, voucher number).
C1_UniqueNumbers ==
    \A i, j \in DOMAIN vouchers :
        i # j => <<vouchers[i].email, vouchers[i].company, vouchers[i].voucherNo>>
                 # <<vouchers[j].email, vouchers[j].company, vouchers[j].voucherNo>>

\* C2 as stated: the first successful submit of a pair stores 1, every later one
\* the count of the pair's submitted and not deleted vouchers, plus 1.
C2_CountPlusOne ==
    [][Inserted =>
         NewRecord.voucherNo =
            IF lastNo[PairOf(NewRecord)] = 0
            THEN 1
            ELSE Cardinality(PairRecords(vouchers, PairOf(NewRecord))) + 1]_vars

\* C2 amended: a successful submit that carries no number of its own stores 1
\* when the record store holds no voucher of the pair, and otherwise a number
\* that is 1 more than a stored number of the pair and that no stored number of
\* the pair exceeds by less than 1 (the largest stored number plus 1).
C2_HighestPlusOne ==
    [][Inserted =>
         LET N == PairNumbers(vouchers, PairOf(NewRecord)) IN
         IF N = {}
         THEN NewRecord.voucherNo = 1
         ELSE /\ NewRecord.voucherNo - 1 \in N
              /\ \A n \in N : n < NewRecord.voucherNo]_vars

\* C2 witness: a submit has stored 3 for a pair that holds two vouchers, a
\* voucher of the pair having been deleted before (count + 1 would be 2..3).
C2_Witness ==
    \E s \in Slots, p \in Owners \X Companies :
        /\ Answered(s, "submit", 200)
        /\ lastNo[p] = 3
        /\ PairNumbers(vouchers, p) = {2, 3}

\* C5 as stated: the numbers stored by successive successful submits of a pair
\* are strictly increasing in submission order.
C5_StrictlyIncreasing ==
    [][Inserted => NewRecord.voucherNo > lastNo[PairOf(NewRecord)]]_vars

\* C5 amended: the number a successful submit stores (no number of its own in
\* the request) is greater than every number stored for the pair at that
\* moment; it is greater than the number of the pair's previous submit as long
\* as that voucher is still stored.
C5_AboveStored ==
    [][Inserted =>
         LET p == PairOf(NewRecord) IN
         /\ \A i \in PairRecords(vouchers, p) : vouchers[i].voucherNo < NewRecord.voucherNo
         /\ lastNo[p] \in PairNumbers(vouchers, p) => lastNo[p] < NewRecord.voucherNo]_vars

\* C5 witness: after a delete of the pair's only voucher a submit stored 1 again.
C5_Witness ==
    \E s \in Slots, p \in Owners \X Companies :
        /\ Answered(s, "submit", 200)
        /\ ver = 3
        /\ lastNo[p] = 1
        /\ PairNumbers(vouchers, p) = {1}

\* Slot s is answered with this status by this step.
Answers(s, op, status) ==
    req'[s].pc = "done" /\ req'[s].op = op /\ req'[s].status = status

\* The call that returned in this step of slot s, if one did.
Returned(s, name, ok) ==
    req'[s].calls = Append(req[s].calls, [call |-> name, ok |-> ok])

\* C3: two submits of one pair that have both computed their number from the
\* same contents of the record store, neither having inserted yet, hold the same
\* number; and voucher.save() inserts the record of each whatever the store
\* holds, so both are inserted.
C3_SameNumber ==
    \A s, t \in Slots :
        (/\ s # t
         /\ req[s].op = "submit" /\ req[t].op = "submit"
         /\ req[s].pc \in {"render", "upload", "append", "save"}
         /\ req[t].pc \in {"render", "upload", "append", "save"}
         /\ req[s].user = req[t].user /\ req[s].filter = req[t].filter
         /\ req[s].readVer = req[t].readVer)
        => req[s].voucherNo = req[t].voucherNo
C3_Race ==
    /\ []C3_SameNumber
    /\ [][\A s \in Slots :
            (req[s].pc = "save" /\ Returned(s, "save", TRUE))
            => /\ Inserted
               /\ NewRecord.email = req[s].user
               /\ NewRecord.company = req[s].filter
               /\ NewRecord.voucherNo = req[s].voucherNo]_vars

\* C3 witness: two overlapping submits have both succeeded and their two
\* records share (owner, company, number).
C3_Witness ==
    /\ \A s \in Slots : Answered(s, "submit", 200)
    /\ \E i, j \in DOMAIN vouchers :
          /\ i < j
          /\ vouchers[i].email = vouchers[j].email
          /\ vouchers[i].company = vouchers[j].company
          /\ vouchers[i].voucherNo = vouchers[j].voucherNo

\* C4: the number the sorted findOne of getUserResources yields (the answer of
\* /get-voucher-no, the allocation of /submit) is 1 when the record store holds
\* no voucher of the pair, else the largest stored number of the pair plus 1;
\* no step of /get-voucher-no changes the record store, so the number is not
\* reserved and the next call computes it again.
C4_NextNumber ==
    [][\A s \in Slots :
         /\ (req[s].pc = "findHighest" /\ Returned(s, "findHighest", TRUE))
            => LET N == PairNumbers(vouchers, <<req[s].user, req[s].filter>>)
                   n == IF req[s].op = "getno" THEN req'[s].result
                                               ELSE req'[s].voucherNumber
               IN  /\ N = {} => n = 1
                   /\ N # {} => (n - 1 \in N /\ \A m \in N : m < n)
                   /\ req[s].op = "getno" => Answers(s, "getno", 200)
         /\ (req[s].op = "getno" /\ Active(s))
            => (vouchers' = vouchers /\ nextId' = nextId)]_vars

\* C4 witness: /get-voucher-no has answered 3 for a pair that holds 1 and 2.
C4_Witness ==
    \E s \in Slots :
        /\ Answered(s, "getno", 200)
        /\ req[s].result = 3
        /\ PairNumbers(vouchers, <<req[s].user, req[s].filter>>) = {1, 2}

\* C6: a /submit, /edit-voucher or /get-voucher-no request whose category is
\* not in the registry is answered 400 in the step it arrives, having made no
\* call, and session store, record store, sheets, folders and files are as before.
C6_InvalidCategory ==
    [][\A s \in Slots :
         (/\ FreeSlot(s) /\ nreq' = nreq + 1
          /\ req'[s].op \in {"submit", "edit", "getno"}
          /\ req'[s].filter \notin Registry)
         => /\ Answers(s, req'[s].op, 400)
            /\ req'[s].calls = <<>>
            /\ UNCHANGED <<stores, sessionUser>>]_vars

\* C6 witness: an edit for category Acme was answered 400 while vouchers are
\* stored and the session holds an identity.
C6_Witness ==
    \E s \in Slots :
        /\ Answered(s, "edit", 400)
        /\ req[s].filter = "Acme"
        /\ vouchers # <<>>
        /\ sessionUser["sid1"] # NoUser

\* C7: when the findOne of an edit returns and the record with the named id
\* belongs to another owner than the resolved identity, the request is answered
\* 404 in that step; no step of the request up to there changed record store,
\* sheets, folders or files, and the only call made before was userinfo.
C7_EditNotOwner ==
    [][\A s \in Slots :
         /\ (req[s].pc = "editFind" /\ Returned(s, "findOne", TRUE)
              /\ \E i \in DOMAIN vouchers :
                    vouchers[i].id = req[s].param /\ vouchers[i].email # req[s].user)
            => /\ Answers(s, "edit", 404)
               /\ \A k \in DOMAIN req[s].calls : req[s].calls[k].call = "userinfo"
         /\ (req[s].op = "edit" /\ req[s].pc \in {"userinfo", "editFind"})
            => UNCHANGED stores
         /\ (FreeSlot(s) /\ nreq' = nreq + 1 /\ req'[s].op = "edit")
            => UNCHANGED stores]_vars

\* C7 witness: an edit was answered 404 and the record it named is stored and
\* belongs to another owner.
C7_Witness ==
    \E s \in Slots :
        /\ Answered(s, "edit", 404)
        /\ req[s].user \in Owners
        /\ \E i \in DOMAIN vouchers :
              vouchers[i].id = req[s].param /\ vouchers[i].email # req[s].user

\* C8: in every state in which no request is in flight (the states failed
\* requests leave are among them), each record that has a document id refers to
\* a document that exists in the folder store.
C8_DocumentsExist ==
    NoneActive =>
        \A i \in DOMAIN vouchers :
            vouchers[i].pdfFileId # 0 => Live(vouchers[i].pdfFileId)

\* C9: a record is inserted only by the save of a submit whose upload and
\* append, in this order, both succeeded before; at the insert the record's
\* document exists in the folder store and a row of the record's sheet carries
\* its number.
C9_WriteOrder ==
    [][Inserted =>
         \E s \in Slots :
            /\ req[s].op = "submit" /\ req[s].pc = "save" /\ Returned(s, "save", TRUE)
            /\ LET c == req[s].calls
                    n == Len(c)
               IN  /\ n >= 2
                   /\ c[n - 1] = [call |-> "upload", ok |-> TRUE]
                   /\ c[n] = [call |-> "append", ok |-> TRUE]
            /\ NewRecord.pdfFileId = req[s].pdfFileId
            /\ Live(NewRecord.pdfFileId)
            /\ HasSheet(NewRecord.spreadsheetId, NewRecord.company)
            /\ \E k \in DOMAIN sheets[NewRecord.spreadsheetId].rows :
                  sheets[NewRecord.spreadsheetId].rows[k].no = NewRecord.voucherNo]_vars

\* C9 witness: a submit has succeeded while another request is in flight; its
\* record, its document and its row are there.
C9_Witness ==
    \E s, t \in Slots :
        /\ Answered(s, "submit", 200)
        /\ Active(t)
        /\ \E i \in DOMAIN vouchers :
              /\ vouchers[i].pdfFileId = req[s].result
              /\ Live(vouchers[i].pdfFileId)
              /\ \E k \in DOMAIN sheets[vouchers[i].spreadsheetId].rows :
                    sheets[vouchers[i].spreadsheetId].rows[k].no = vouchers[i].voucherNo

\* C10: in submit, edit and delete a call that fails ends the request in that
\* step with a 500 response: the failed call is the last call of the request,
\* no call is made twice, and the step of the failure takes nothing back (record
\* store, files and folders are as before it, no spreadsheet is removed or
\* changed).
C10_FailedCallIsLast ==
    \A s \in Slots :
        req[s].op \in {"submit", "edit", "delete"} =>
            \A k \in DOMAIN req[s].calls :
                /\ ~req[s].calls[k].ok =>
                       (k = Len(req[s].calls) /\ Answered(s, req[s].op, 500))
                /\ \A j \in DOMAIN req[s].calls :
                       j # k => req[s].calls[j].call # req[s].calls[k].call
C10_FailFast ==
    /\ []C10_FailedCallIsLast
    /\ [][\A s \in Slots :
            (/\ Active(s)
             /\ req[s].op \in {"submit", "edit", "delete"}
             /\ Len(req'[s].calls) = Len(req[s].calls) + 1
             /\ ~req'[s].calls[Len(req'[s].calls)].ok)
            => /\ Answers(s, req[s].op, 500)
               /\ UNCHANGED <<vouchers, nextId, files, folders>>
               /\ Len(sheets') >= Len(sheets)
               /\ SubSeq(sheets', 1, Len(sheets)) = sheets]_vars

\* C10 witness: a submit was answered 500 after its append failed; the document
\* it had uploaded before is still in the folder store, and no record has it.
C10_Witness ==
    \E s \in Slots :
        /\ Answered(s, "submit", 500)
        /\ Len(req[s].calls) >= 2
        /\ req[s].calls[Len(req[s].calls)] = [call |-> "append", ok |-> FALSE]
        /\ req[s].calls[Len(req[s].calls) - 1] = [call |-> "upload", ok |-> TRUE]
        /\ Live(Len(files))
        /\ \A i \in DOMAIN vouchers : vouchers[i].pdfFileId # Len(files)

\* C11: a delete whose sheet read finds the voucher's number in the first cell
\* of no row goes on to Voucher.deleteOne without a values.clear; when deleteOne
\* succeeds the found record is gone from the record store and the answer is
\* 200; no step of such a delete changes a spreadsheet.
C11_DeleteRowNotFound ==
    [][\A s \in Slots :
         /\ (/\ req[s].pc = "deleteSheetGet" /\ Returned(s, "sheetGet", TRUE)
             /\ \A k \in DOMAIN sheets[req[s].spreadsheetId].rows :
                   sheets[req[s].spreadsheetId].rows[k].no # req[s].voucherNo)
            => (req'[s].pc = "deleteOne" /\ req'[s].rowIndex = -1 /\ sheets' = sheets)
         /\ (req[s].pc = "deleteOne" /\ req[s].rowIndex = -1)
            => /\ sheets' = sheets
               /\ Returned(s, "deleteOne", TRUE)
                  => /\ Answers(s, "delete", 200)
                     /\ Len(vouchers') = Len(vouchers) - 1
                     /\ \A i \in DOMAIN vouchers' : vouchers'[i] # req[s].existing]_vars

\* C11 witness: a delete was answered 200 without a values.clear; the sheet of
\* the deleted voucher holds no row.
C11_Witness ==
    \E s \in Slots :
        /\ Answered(s, "delete", 200)
        /\ \A k \in DOMAIN req[s].calls : req[s].calls[k].call # "sheetClear"
        /\ vouchers = <<>>
        /\ Len(sheets) = 1 /\ sheets[1].rows = <<>>

\* C12: an edit whose sheet read finds the voucher's number in the first cell of
\* no row is answered 500 in that step; no step of the edit up to there has
\* written a spreadsheet or the record store.
C12_EditRowNotFound ==
    [][\A s \in Slots :
         /\ (/\ req[s].op = "edit" /\ req[s].pc = "sheetGet"
             /\ Returned(s, "sheetGet", TRUE)
             /\ \A k \in DOMAIN sheets[req[s].spreadsheetId].rows :
                   sheets[req[s].spreadsheetId].rows[k].no # req[s].voucherNo)
            => /\ Answers(s, "edit", 500)
               /\ sheets' = sheets
               /\ vouchers' = vouchers
         /\ (req[s].op = "edit" /\ Active(s)
               /\ req[s].pc \notin {"sheetUpdate", "updateOne"})
            => (sheets' = sheets /\ vouchers' = vouchers)]_vars

\* C12 witness: an edit was answered 500 after a sheet read that succeeded; the
\* record it named is stored and its sheet holds no row.
C12_Witness ==
    \E s \in Slots :
        /\ Answered(s, "edit", 500)
        /\ req[s].calls # <<>>
        /\ req[s].calls[Len(req[s].calls)] = [call |-> "sheetGet", ok |-> TRUE]
        /\ \E i \in DOMAIN vouchers :
              /\ vouchers[i].id = req[s].param
              /\ sheets[vouchers[i].spreadsheetId].rows = <<>>

\* C13: the save of a successful submit inserts a record with the caller as
\* owner, the request's category and the request's fields, and a document link
\* that is not empty; a list request changes no store; and a list without
\* filters by an owner who has exactly one record (an owner without vouchers
\* after one successful submit) answers 200 with exactly that record.
C13_RoundTrip ==
    [][\A s \in Slots :
         /\ (req[s].pc = "save" /\ Returned(s, "save", TRUE))
            => /\ Inserted
               /\ Answers(s, "submit", 200)
               /\ NewRecord.email = req[s].user
               /\ NewRecord.company = req[s].filter
               /\ NewRecord.data = req[s].data
               /\ NewRecord.pdfLink # 0
         /\ (req[s].op = "list" /\ Active(s)) => UNCHANGED stores
         /\ (/\ req[s].pc = "listFind" /\ Returned(s, "find", TRUE)
             /\ req[s].filter = "" /\ req[s].data.date = ""
             /\ Cardinality({i \in DOMAIN vouchers : vouchers[i].email = req[s].user}) = 1)
            => /\ Answers(s, "list", 200)
               /\ \E i \in DOMAIN vouchers :
                     /\ vouchers[i].email = req[s].user
                     /\ req'[s].listed = <<vouchers[i]>>]_vars

\* C13 witness: after one successful submit, and nothing else stored, a list of
\* the owner has returned the one record with the submitted fields and a link.
C13_Witness ==
    \E s \in Slots :
        /\ Answered(s, "list", 200)
        /\ ver = 1 /\ Len(vouchers) = 1
        /\ req[s].listed = <<vouchers[1]>>
        /\ vouchers[1].email = req[s].user
        /\ vouchers[1].data = [date |-> "2024-01-01", amount |-> "500",
                               transactionType |-> "UPI"]
        /\ vouchers[1].pdfLink # 0

\* C14: with requests one at a time, a submit that finds a voucher of its
\* (owner, company) stored takes that voucher's spreadsheet id and folder id,
\* creates no spreadsheet and no folder, and the record it inserts carries the
\* ids of the pair's stored records; a submit for a pair without a stored
\* voucher inserts a record whose spreadsheet id and folder id no stored record
\* (of the same owner's other companies, or of anyone) carries.
C14_WorkspaceReuse ==
    [][\A s \in Slots :
         req[s].op = "submit" =>
         LET p == <<req[s].user, req[s].filter>> IN
         /\ (/\ req[s].pc = "findExisting" /\ Returned(s, "findOne", TRUE)
             /\ PairRecords(vouchers, p) # {})
            => /\ req'[s].pc = "findHighest"
               /\ \A i \in PairRecords(vouchers, p) :
                     /\ req'[s].spreadsheetId = vouchers[i].spreadsheetId
                     /\ req'[s].folderId = vouchers[i].folderId
         /\ (Active(s) /\ req[s].user # NoUser /\ PairRecords(vouchers, p) # {})
            => (Len(sheets') = Len(sheets) /\ folders' = folders)
         /\ (req[s].pc = "save" /\ Returned(s, "save", TRUE))
            => IF PairRecords(vouchers, p) # {}
               THEN \A i \in PairRecords(vouchers, p) :
                       /\ NewRecord.spreadsheetId = vouchers[i].spreadsheetId
                       /\ NewRecord.folderId = vouchers[i].folderId
               ELSE \A i \in DOMAIN vouchers :
                       /\ NewRecord.spreadsheetId # vouchers[i].spreadsheetId
                       /\ NewRecord.folderId # vouchers[i].folderId]_vars

\* C14 witness: three submits of one owner have succeeded, two for one company
\* and then one for another: the first two records share spreadsheet and folder,
\* the third has its own, and two spreadsheets and two folders exist.
C14_Witness ==
    /\ Len(vouchers) = 3
    /\ Len(sheets) = 2 /\ folders = 2
    /\ vouchers[1].email = vouchers[2].email /\ vouchers[2].email = vouchers[3].email
    /\ vouchers[1].company = vouchers[2].company
    /\ vouchers[3].company # vouchers[1].company
    /\ vouchers[1].spreadsheetId = vouchers[2].spreadsheetId
    /\ vouchers[1].folderId = vouchers[2].folderId
    /\ vouchers[3].spreadsheetId # vouchers[1].spreadsheetId
    /\ vouchers[3].folderId # vouchers[1].folderId

\* C15: in every state all records of the record store with the same (owner,
\* company) carry the same spreadsheet id and the same folder id.
C15_OneWorkspace ==
    \A i, j \in DOMAIN vouchers :
        PairOf(vouchers[i]) = PairOf(vouchers[j])
        => /\ vouchers[i].spreadsheetId = vouchers[j].spreadsheetId
           /\ vouchers[i].folderId = vouchers[j].folderId

\* C16: when the deleteOne of a delete succeeds (the request is answered 200),
\* the record the request found is absent from the record store and from the
\* owner's listing, its document is absent from the folder store, no row of its
\* sheet carries its document link, and every other record of the owner is
\* listed as before.
C16_DeleteRemovesAll ==
    [][\A s \in Slots :
         (req[s].pc = "deleteOne" /\ Returned(s, "deleteOne", TRUE))
         => LET gone == req[s].existing
                listing(vs) == {vs[i] : i \in Find(vs, req[s].user, "", "")}
            IN  /\ Answers(s, "delete", 200)
                /\ \A i \in DOMAIN vouchers' : vouchers'[i] # gone
                /\ gone \notin listing(vouchers')
                /\ ~Live(gone.pdfFileId)
                /\ \A k \in DOMAIN sheets'[gone.spreadsheetId].rows :
                      sheets'[gone.spreadsheetId].rows[k].link # gone.pdfLink
                /\ listing(vouchers') = listing(vouchers) \ {gone}]_vars

\* The data row at position k of a sheet (rows the sheet does not hold are empty).
RowAt(rows, k) == IF k \in DOMAIN rows THEN rows[k] ELSE EmptyRow

\* C17: the values.clear of a delete empties the data row it located, the first
\* one whose first cell is the voucher's number, and nothing else: at every
\* other position of that sheet the row is as before, the cleared position holds
\* an empty row, the header and every other spreadsheet are unchanged; no other
\* step of a delete writes a spreadsheet.
C17_ClearInPlace ==
    [][\A s \in Slots :
         /\ (req[s].pc = "deleteClear" /\ Returned(s, "sheetClear", TRUE))
            => LET id == req[s].spreadsheetId
                   i == req[s].rowIndex + 1
               IN  /\ RowAt(sheets[id].rows, i).no = req[s].voucherNo
                   /\ \A k \in 1..(i - 1) : sheets[id].rows[k].no # req[s].voucherNo
                   /\ \A k \in 1..(Len(sheets[id].rows) + 1) :
                         RowAt(sheets'[id].rows, k) =
                            IF k = i THEN EmptyRow ELSE RowAt(sheets[id].rows, k)
                   /\ Len(sheets'[id].rows) <= Len(sheets[id].rows)
                   /\ sheets'[id].header = sheets[id].header
                   /\ sheets'[id].title = sheets[id].title
                   /\ Len(sheets') = Len(sheets)
                   /\ \A j \in DOMAIN sheets : j # id => sheets'[j] = sheets[j]
         /\ (req[s].op = "delete" /\ Active(s) /\ req[s].pc # "deleteClear")
            => sheets' = sheets]_vars

\* C17 witness: a delete of voucher 1 has succeeded on a sheet with two rows: the
\* first position is an empty row and the row of voucher 2 is still second.
C17_Witness ==
    \E s \in Slots :
        /\ Answered(s, "delete", 200)
        /\ req[s].param = 1
        /\ Len(sheets) = 1
        /\ Len(sheets[1].rows) = 2
        /\ sheets[1].rows[1] = EmptyRow
        /\ sheets[1].rows[2].no = 2

\* C18: the values.update of an edit writes the request's row at the position
\* of the first data row whose first cell is the voucher's number; every other
\* data row, the header and every other spreadsheet are as before; no other
\* step of an edit writes a spreadsheet.
C18_OverwriteOneRow ==
    [][\A s \in Slots :
         /\ (req[s].pc = "sheetUpdate" /\ Returned(s, "sheetUpdate", TRUE))
            => LET id == req[s].spreadsheetId
                   i == req[s].rowIndex + 1
               IN  /\ i \in DOMAIN sheets[id].rows
                   /\ sheets[id].rows[i].no = req[s].voucherNo
                   /\ \A k \in 1..(i - 1) : sheets[id].rows[k].no # req[s].voucherNo
                   /\ Len(sheets'[id].rows) = Len(sheets[id].rows)
                   /\ sheets'[id].rows[i] = Row(req[s])
                   /\ \A k \in DOMAIN sheets[id].rows :
                         k # i => sheets'[id].rows[k] = sheets[id].rows[k]
                   /\ sheets'[id].header = sheets[id].header
                   /\ sheets'[id].title = sheets[id].title
                   /\ Len(sheets') = Len(sheets)
                   /\ \A j \in DOMAIN sheets : j # id => sheets'[j] = sheets[j]
         /\ (req[s].op = "edit" /\ req[s].pc # "sheetUpdate" /\ req'[s] # req[s])
            => sheets' = sheets]_vars

\* C18 witness: an edit of a voucher has succeeded on a sheet that holds two
\* rows with the voucher's number: the first carries the link of the edit's
\* document, the second is the row as it was appended.
C18_Witness ==
    \E s \in Slots :
        /\ Answered(s, "edit", 200)
        /\ Len(sheets) = 1
        /\ Len(sheets[1].rows) = 2
        /\ sheets[1].rows[1].no = sheets[1].rows[2].no
        /\ sheets[1].rows[1].link = Link(req[s].result)
        /\ sheets[1].rows[2].link = Link(2)
        /\ req[s].result = 3

\* A request of any handler arrives in slot s with this cookie and this token.
ArrivesWith(s, sid, bearer) ==
    \/ /\ req'[s].op = "submit"
       /\ \E bodyNo \in 0..MaxNo, data \in VoucherData :
             SubmitStart(s, sid, bearer, req'[s].filter, bodyNo, data)
    \/ /\ req'[s].op = "edit"
       /\ \E data \in VoucherData :
             EditStart(s, sid, bearer, req'[s].filter, req'[s].param, data)
    \/ /\ req'[s].op = "delete"
       /\ DeleteStart(s, sid, bearer, req'[s].param)
    \/ /\ req'[s].op = "getno"
       /\ GetVoucherNo(s, sid, bearer, req'[s].filter)
    \/ /\ req'[s].op = "list"
       /\ \E date \in {"", "2024-01-01"}, sort \in {"", "lowToHigh", "highToLow"} :
             ListStart(s, sid, bearer, req'[s].filter, date, sort)
    \/ /\ req'[s].op = "check"
       /\ CheckSession(s, sid, bearer)

\* C19: a request that arrives with a session holding an identity, whatever
\* bearer token it carries, is resolved in the step it arrives to exactly that
\* identity, with no call made and the session as it was (unless its category
\* is rejected before identity resolution); a request resolved from the session
\* never calls the identity provider.
C19_ResolvedFromSession ==
    \A s \in Slots :
        (Active(s) /\ req[s].user # NoUser /\ ~req[s].auth)
        => \A k \in DOMAIN req[s].calls : req[s].calls[k].call # "userinfo"
C19_SessionFastPath ==
    /\ []C19_ResolvedFromSession
    /\ [][\A s \in Slots, sid \in Sessions, bearer \in Tokens :
            (sessionUser[sid] # NoUser /\ nreq' # nreq /\ ArrivesWith(s, sid, bearer))
            => \/ Answers(s, req'[s].op, 400) /\ req'[s].calls = <<>>
                  /\ sessionUser' = sessionUser
               \/ /\ req'[s].user = sessionUser[sid]
                  /\ ~req'[s].auth
                  /\ req'[s].calls = <<>>
                  /\ req'[s].pc = AfterAuth(req'[s].op)
                  /\ sessionUser' = sessionUser]_vars

\* C19 witness: a list request was resolved from the session (no userinfo call)
\* to the identity the session holds and was answered with that owner's record.
C19_Witness ==
    \E s \in Slots :
        /\ Answered(s, "list", 200)
        /\ req[s].calls = <<[call |-> "find", ok |-> TRUE]>>
        /\ req[s].user = sessionUser["sid1"]
        /\ Len(req[s].listed) = 1
        /\ req[s].listed[1].email = req[s].user

\* C20: a request that arrives with no identity in its session and no bearer
\* token is answered in that step with the failure of its handler (or 400 when
\* its category is rejected first), and a request whose userinfo call fails is
\* answered with the failure in that step; in both cases the session store is
\* as before, no store is changed and no call to the spreadsheet store, the
\* folder store or the record store has been made.
C20_Unauthenticated ==
    [][\A s \in Slots :
         /\ \A sid \in Cookies :
              (/\ nreq' # nreq
               /\ sid \in Sessions => sessionUser[sid] = NoUser
               /\ ArrivesWith(s, sid, NoToken))
              => /\ \/ Answers(s, req'[s].op, FailStatus(req'[s].op))
                    \/ Answers(s, req'[s].op, 400)
                 /\ req'[s].calls = <<>>
                 /\ req'[s].user = NoUser
                 /\ sessionUser' = sessionUser
                 /\ UNCHANGED stores
         /\ (req[s].pc = "userinfo" /\ Returned(s, "userinfo", FALSE))
            => /\ Answers(s, req[s].op, FailStatus(req[s].op))
               /\ req'[s].calls = <<[call |-> "userinfo", ok |-> FALSE]>>
               /\ req'[s].user = NoUser
               /\ sessionUser' = sessionUser
               /\ UNCHANGED stores]_vars

\* C20 witness: a list request whose bearer token the identity provider did not
\* accept was answered 500 with no other call made; the session holds no
\* identity, and a voucher is stored.
C20_Witness ==
    \E s \in Slots :
        /\ Answered(s, "list", 500)
        /\ req[s].calls = <<[call |-> "userinfo", ok |-> FALSE]>>
        /\ sessionUser["sid1"] = NoUser
        /\ vouchers # <<>>

C22_Logout ==
    [][\A s \in Slots, sid \in Sessions :
         /\ (nreq' # nreq /\ Logout(s, sid))
            => /\ UNCHANGED stores
               /\ Answers(s, "logout", 200) => sessionUser'[sid] = NoUser
         /\ (nreq' # nreq /\ sessionUser[sid] = NoUser /\ ArrivesWith(s, sid, NoToken))
            => /\ \/ Answers(s, req'[s].op, FailStatus(req'[s].op))
                  \/ Answers(s, req'[s].op, 400)
               /\ req'[s].user = NoUser
               /\ req'[s].calls = <<>>]_vars

\* C22 witness: a logout on a session that held an owner's identity was
\* answered 200; the session holds no identity, and that owner's voucher, its
\* row and its document are there.
C22_Witness ==
    \E s \in Slots :
        /\ Answered(s, "logout", 200)
        /\ req[s].user \in Owners
        /\ sessionUser["sid1"] = NoUser
        /\ Len(vouchers) = 1
        /\ vouchers[1].email = req[s].user
        /\ Live(vouchers[1].pdfFileId)
        /\ Len(sheets[vouchers[1].spreadsheetId].rows) = 1

\* C23: when no request is in flight, no rendered-document file is left in the
\* server's directory.
C23_NoTempFileLeft ==
    NoneActive => disk = {}

\* C28: a request that is answered although its record was written: the submit
\* in slot s is answered 500 in the step in which its record is inserted.
C28_FailedSubmitInsertsNothing ==
    [][\A s \in Slots :
         (Active(s) /\ Answers(s, "submit", 500)) => ~Inserted]_vars

\* The records of the store a list request of slot s asks for.
Asked(s) ==
    {vouchers[i] : i \in {j \in DOMAIN vouchers :
        /\ vouchers[j].email = req[s].user
        /\ req[s].filter # "" => vouchers[j].company = req[s].filter
        /\ req[s].data.date # "" => vouchers[j].data.date = req[s].data.date}}

\* C24: a list whose query returns answers 200 with exactly the caller's records
\* that match the company and the date the request gives, each once, none of
\* another owner; with no sort option they come by ascending voucher number.
C24_ListOwnRecords ==
    [][\A s \in Slots :
         (req[s].pc = "listFind" /\ Returned(s, "find", TRUE))
         => LET listed == req'[s].listed IN
            /\ Answers(s, "list", 200)
            /\ req[s].user # NoUser
            /\ {listed[k] : k \in DOMAIN listed} = Asked(s)
            /\ Len(listed) = Cardinality(Asked(s))
            /\ \A k \in DOMAIN listed : listed[k].email = req[s].user
            /\ req[s].sort \notin {"lowToHigh", "highToLow"}
               => \A j, k \in DOMAIN listed :
                     j < k => listed[j].voucherNo <= listed[k].voucherNo]_vars

\* C24 witness: a list without sort option and with a company filter has
\* returned the caller's two records of that company, number 1 before number 2,
\* although number 2 was inserted first; a record of another owner is stored and
\* not returned.
C24_Witness ==
    \E s \in Slots :
        /\ Answered(s, "list", 200)
        /\ req[s].sort = "" /\ req[s].filter = "Contentstack"
        /\ Len(vouchers) = 3
        /\ \E a, b, c \in DOMAIN vouchers :
              /\ a < b
              /\ vouchers[a].voucherNo = 2 /\ vouchers[b].voucherNo = 1
              /\ vouchers[c].email # req[s].user
              /\ req[s].listed = <<vouchers[b], vouchers[a]>>

\* C27: with sort lowToHigh a record whose amount is "500" is never placed
\* after one whose amount is "75", and with sort highToLow never before it: the
\* amounts are ordered as strings, not as numbers.
C27_AmountAsText ==
    [][\A s \in Slots :
         (req[s].pc = "listFind" /\ Returned(s, "find", TRUE))
         => LET listed == req'[s].listed IN
            \A j, k \in DOMAIN listed :
               /\ (j < k /\ listed[j].data.amount = "75" /\ listed[k].data.amount = "500")
                  => req[s].sort # "lowToHigh"
               /\ (j < k /\ listed[j].data.amount = "500" /\ listed[k].data.amount = "75")
                  => req[s].sort # "highToLow"]_vars

\* C27 witness: a list with sort lowToHigh has returned the record with amount
\* "500" before the record with amount "75", which was inserted first.
C27_Witness ==
    \E s \in Slots :
        /\ Answered(s, "list", 200)
        /\ req[s].sort = "lowToHigh"
        /\ Len(vouchers) = 2
        /\ vouchers[1].data.amount = "75" /\ vouchers[2].data.amount = "500"
        /\ req[s].listed = <<vouchers[2], vouchers[1]>>

\* C25: a step that removes a record is the deleteOne of a delete request, and
\* the record it removes carries the request's number and the caller's identity
\* as owner; when the findOne of a delete returns and the caller owns no voucher
\* with the number, the request is answered 404 in that step; and no step of a
\* delete up to there changes a record, a spreadsheet, a folder or a file.
C25_DeleteOwnOnly ==
    [][/\ Len(vouchers') < Len(vouchers)
          => \E s \in Slots :
                /\ req[s].op = "delete" /\ req[s].pc = "deleteOne"
                /\ \A i \in DOMAIN vouchers :
                      (\A j \in DOMAIN vouchers' : vouchers'[j].id # vouchers[i].id)
                      => /\ vouchers[i].email = req[s].user
                         /\ vouchers[i].voucherNo = req[s].param
       /\ \A s \in Slots :
             /\ (/\ req[s].pc = "deleteFind" /\ Returned(s, "findOne", TRUE)
                 /\ \A i \in DOMAIN vouchers :
                       ~(vouchers[i].voucherNo = req[s].param /\ vouchers[i].email = req[s].user))
                => Answers(s, "delete", 404)
             /\ (req[s].op = "delete" /\ req[s].pc \in {"userinfo", "deleteFind"})
                => UNCHANGED stores
             /\ (FreeSlot(s) /\ nreq' = nreq + 1 /\ req'[s].op = "delete")
                => UNCHANGED stores]_vars

\* C25 witness: a delete was answered 404; a voucher with the number it named
\* is stored with its document and its row, and belongs to another owner.
C25_Witness ==
    \E s \in Slots :
        /\ Answered(s, "delete", 404)
        /\ req[s].user \in Owners
        /\ \E i \in DOMAIN vouchers :
              /\ vouchers[i].voucherNo = req[s].param
              /\ vouchers[i].email # req[s].user
              /\ Live(vouchers[i].pdfFileId)
              /\ \E k \in DOMAIN sheets[vouchers[i].spreadsheetId].rows :
                    sheets[vouchers[i].spreadsheetId].rows[k].no = vouchers[i].voucherNo

\* C26: when the folder creation of a submit fails after its spreadsheet was
\* created, the request is answered 500 in that step, the spreadsheet is in the
\* spreadsheet store, empty and referred to by no record, and the step changes
\* no store: nothing is uploaded, appended or inserted; and no step of any
\* request removes a spreadsheet.
C26_OrphanSpreadsheet ==
    [][/\ Len(sheets') >= Len(sheets)
       /\ \A s \in Slots :
             (/\ req[s].op = "submit" /\ req[s].pc = "createDriveFolder"
              /\ Returned(s, "createDriveFolder", FALSE))
             => /\ Answers(s, "submit", 500)
                /\ UNCHANGED stores
                /\ req[s].spreadsheetId \in DOMAIN sheets'
                /\ sheets'[req[s].spreadsheetId].title = req[s].filter
                /\ sheets'[req[s].spreadsheetId].rows = <<>>
                /\ \A i \in DOMAIN vouchers' :
                      vouchers'[i].spreadsheetId # req[s].spreadsheetId
                /\ \A k \in DOMAIN req'[s].calls :
                      req'[s].calls[k].call \notin {"upload", "append", "save"}]_vars

\* C26 witness: the first submit of a pair was answered 500 after its folder
\* creation failed: one spreadsheet exists, without rows; no folder, no file and
\* no record exists.
C26_Witness ==
    \E s \in Slots :
        /\ Answered(s, "submit", 500)
        /\ Len(req[s].calls) >= 2
        /\ req[s].calls[Len(req[s].calls)] = [call |-> "createDriveFolder", ok |-> FALSE]
        /\ req[s].calls[Len(req[s].calls) - 1] = [call |-> "createSpreadsheet", ok |-> TRUE]
        /\ Len(sheets) = 1 /\ sheets[1].rows = <<>>
        /\ folders = 0 /\ files = <<>> /\ vouchers = <<>>

\* The number a submit in flight in slot s has to use.
Given(s) == IF req[s].bodyNo # 0 THEN req[s].bodyNo ELSE req[s].voucherNumber

\* C29: the document a submit uploads, the row it appends and the record it
\* inserts carry the number of the request body when that is not 0, otherwise
\* the number allocated for the request, which is 1 for a pair without records
\* and the pair's highest number plus 1 otherwise; the insert is made whether
\* or not the pair already has a record with the number.
C29_ClientNumber ==
    [][\A s \in Slots :
         req[s].op = "submit" =>
         /\ (req[s].pc = "findHighest" /\ Returned(s, "findHighest", TRUE))
            => LET N == PairNumbers(vouchers, <<req[s].user, req[s].filter>>) IN
               req'[s].voucherNumber =
                  IF N = {} THEN 1 ELSE 1 + CHOOSE m \in N : \A n \in N : n <= m
         /\ (req[s].pc = "upload" /\ Returned(s, "upload", TRUE))
            => files'[Len(files')].content.voucherNo = Given(s)
         /\ (req[s].pc = "append" /\ Returned(s, "append", TRUE))
            => LET rows == sheets'[req[s].spreadsheetId].rows IN
               rows[Len(rows)].no = Given(s)
         /\ (req[s].pc = "save" /\ Valid(NewVoucher(req[s])))
            => \/ Returned(s, "save", FALSE)
               \/ Inserted /\ NewRecord.voucherNo = Given(s)]_vars

\* C29 witness: a submit that gave number 1 has succeeded for a pair that had a
\* record numbered 1 already: two records of the pair carry the number, each
\* with its own document and its own row.
C29_Witness ==
    \E s \in Slots, i, j \in DOMAIN vouchers :
        /\ Answered(s, "submit", 200)
        /\ i < j /\ j = Len(vouchers)
        /\ PairOf(vouchers[i]) = PairOf(vouchers[j])
        /\ vouchers[i].voucherNo = 1 /\ vouchers[j].voucherNo = 1
        /\ vouchers[j].pdfFileId = req[s].result
        /\ files[vouchers[j].pdfFileId].content.voucherNo = 1
        /\ Len(sheets[vouchers[j].spreadsheetId].rows) = 2
        /\ \A k \in 1..2 : sheets[vouchers[j].spreadsheetId].rows[k].no = 1

\* The record the edit in flight in slot s names, before and after the step.
Edited(vs, s) == CHOOSE v \in {vs[i] : i \in DOMAIN vs} : v.id = req[s].param

\* C30: the step that ends an edit with 200 leaves owner, company, number,
\* spreadsheet id and folder id of the record as they were, sets its fields to
\* the request's, and stores the id and the link of the document the request
\* uploaded; that document exists, the document the record referred to before
\* does not, no other record changes, and no other record refers to the new
\* document. The files change in an edit only by the removal of the old document
\* and by the upload of the new one into the record's folder.
C30_EditFrame ==
    [][\A s \in Slots :
         /\ (Active(s) /\ Answers(s, "edit", 200))
            => LET old == Edited(vouchers, s)
                   new == Edited(vouchers', s)
               IN  /\ req[s].pc = "updateOne"
                   /\ Len(vouchers') = Len(vouchers)
                   /\ new.email = old.email /\ new.email = req[s].user
                   /\ new.company = old.company
                   /\ new.voucherNo = old.voucherNo
                   /\ new.spreadsheetId = old.spreadsheetId
                   /\ new.folderId = old.folderId
                   /\ new.data = req[s].data
                   /\ new.pdfFileId = req[s].pdfFileId
                   /\ new.pdfLink = Link(req[s].pdfFileId)
                   /\ new.pdfFileId # old.pdfFileId
                   /\ Live(new.pdfFileId) /\ ~Live(old.pdfFileId)
                   /\ files[new.pdfFileId].parent = old.folderId
                   /\ files' = files
                   /\ \A i \in DOMAIN vouchers :
                         vouchers[i].id # req[s].param
                         => /\ vouchers'[i] = vouchers[i]
                            /\ vouchers[i].pdfFileId # new.pdfFileId
         /\ (Active(s) /\ req[s].op = "edit" /\ req'[s] # req[s] /\ files' # files)
            => \/ /\ req[s].pc = "deleteOld"
                  /\ files' = [files EXCEPT ![req[s].existing.pdfFileId].live = FALSE]
               \/ /\ req[s].pc = "upload"
                  /\ Len(files') = Len(files) + 1
                  /\ SubSeq(files', 1, Len(files)) = files
                  /\ files'[Len(files')].parent = req[s].folderId
                  /\ files'[Len(files')].live]_vars

\* C30 witness: an edit with other fields than the stored ones was answered 200:
\* the one record has the new fields, refers to the second file, which exists,
\* and the first file is gone.
C30_Witness ==
    \E s \in Slots :
        /\ Answered(s, "edit", 200)
        /\ Len(vouchers) = 1 /\ Len(files) = 2
        /\ vouchers[1].id = req[s].param
        /\ vouchers[1].pdfFileId = 2 /\ req[s].result = 2
        /\ files[2].live /\ ~files[1].live
        /\ files[2].content.data = vouchers[1].data
        /\ files[1].content.data # vouchers[1].data

\* The call name was made by the request r and succeeded.
Did(r, name) == \E k \in DOMAIN r.calls : r.calls[k] = [call |-> name, ok |-> TRUE]

\* C31: a delete writes in the order document, row, record: the step that
\* removes the document leaves sheets and records, the step that clears the row
\* comes after the document was removed and leaves the records, the step that
\* removes the record comes after the sheet was read (and cleared, when the row
\* was found); a failed document deletion is answered 500 with files, sheets and
\* records unchanged, and a failed sheet read or clear is answered 500 with
\* sheets and records unchanged, the found record still stored.
C31_DeleteOrder ==
    [][\A s \in Slots :
         (req[s].op = "delete" /\ Active(s) /\ req'[s] # req[s]) =>
         /\ files' # files
            => /\ req[s].pc = "deleteFile"
               /\ sheets' = sheets /\ vouchers' = vouchers
         /\ sheets' # sheets
            => /\ req[s].pc = "deleteClear"
               /\ Did(req[s], "deleteFile") /\ Did(req[s], "sheetGet")
               /\ ~Live(req[s].existing.pdfFileId)
               /\ files' = files /\ vouchers' = vouchers
         /\ vouchers' # vouchers
            => /\ req[s].pc = "deleteOne"
               /\ Did(req[s], "deleteFile") /\ Did(req[s], "sheetGet")
               /\ req[s].rowIndex # -1 => Did(req[s], "sheetClear")
               /\ files' = files /\ sheets' = sheets
         /\ Returned(s, "deleteFile", FALSE)
            => /\ Answers(s, "delete", 500)
               /\ UNCHANGED stores
         /\ (Returned(s, "sheetGet", FALSE) \/ Returned(s, "sheetClear", FALSE))
            => /\ Answers(s, "delete", 500)
               /\ UNCHANGED stores
               /\ \E i \in DOMAIN vouchers' : vouchers'[i] = req[s].existing]_vars

\* C31 witness: a delete was answered 500 after its values.clear failed: the
\* document of the voucher is gone, its row and its record are there.
C31_Witness ==
    \E s \in Slots :
        /\ Answered(s, "delete", 500)
        /\ req[s].calls # <<>>
        /\ req[s].calls[Len(req[s].calls)] = [call |-> "sheetClear", ok |-> FALSE]
        /\ Len(vouchers) = 1
        /\ ~Live(vouchers[1].pdfFileId)
        /\ \E k \in DOMAIN sheets[vouchers[1].spreadsheetId].rows :
              sheets[vouchers[1].spreadsheetId].rows[k].no = vouchers[1].voucherNo

\* C32: no step of a get-voucher-no request changes the record store, the
\* spreadsheet store, the folder store or the files.
C32_PureQuery ==
    [][\A s \in Slots :
         /\ (req[s].op = "getno" /\ Active(s) /\ req'[s] # req[s]) => UNCHANGED stores
         /\ (FreeSlot(s) /\ nreq' = nreq + 1 /\ req'[s].op = "getno") => UNCHANGED stores]_vars

\* C33: every submit and every edit that is over was answered.
C33_Answered ==
    \A s \in Slots :
        (req[s].pc = "done" /\ req[s].op \in {"submit", "edit"})
        => req[s].status \in {200, 400, 404, 500}

\* C34: a delete that finds its voucher's document already removed, with
\* credentials and without any service failing, goes on to the sheet.
C34_DeleteAgain ==
    [][\A s \in Slots :
         (/\ req[s].op = "delete" /\ req[s].pc = "deleteFile"
          /\ req'[s] # req[s] /\ nfail' = nfail
          /\ HasAuth(req[s]) /\ ~Live(req[s].existing.pdfFileId))
         => req'[s].pc = "deleteSheetGet"]_vars

\* The caller of the delete in slot s holds vouchers with the number the
\* request names in two companies.
HoldsInTwoCompanies(s) ==
    \E i, j \in DOMAIN vouchers :
        /\ vouchers[i].email = req[s].user /\ vouchers[j].email = req[s].user
        /\ vouchers[i].voucherNo = req[s].param /\ vouchers[j].voucherNo = req[s].param
        /\ vouchers[i].company # vouchers[j].company

\* C35: in a delete by an owner who holds the number in two companies, the
\* document removed is the found record's, the row cleared carries the found
\* record's document link and lies in its spreadsheet, every other spreadsheet
\* is unchanged, and the record removed is the found one, every other record
\* staying as it is.
C35_DeleteOneCompany ==
    [][\A s \in Slots :
         (req[s].op = "delete" /\ Active(s) /\ req'[s] # req[s] /\ HoldsInTwoCompanies(s))
         => LET found == req[s].existing IN
            /\ files' # files
               => files' = [files EXCEPT ![found.pdfFileId].live = FALSE]
            /\ sheets' # sheets
               => /\ RowAt(sheets[found.spreadsheetId].rows, req[s].rowIndex + 1).link
                        = found.pdfLink
                  /\ \A id \in DOMAIN sheets :
                        id # found.spreadsheetId => sheets'[id] = sheets[id]
            /\ vouchers' # vouchers
               => /\ Len(vouchers') = Len(vouchers) - 1
                  /\ \A i \in DOMAIN vouchers :
                        vouchers[i] # found
                        => \E j \in DOMAIN vouchers' : vouchers'[j] = vouchers[i]
                  /\ \A j \in DOMAIN vouchers' : vouchers'[j] # found]_vars

\* C36: a submit whose save succeeds while the other slots hold no request of
\* its owner is answered 200, as it is when it runs alone.
C36_NoInterference ==
    [][\A s \in Slots :
         (/\ req[s].op = "submit" /\ req[s].pc = "save" /\ Returned(s, "save", TRUE)
          /\ \A t \in Slots \ {s} :
                /\ req[t].op = "submit"
                /\ req[t].user \in Owners \ {req[s].user}
                /\ req[t].filter = req[s].filter)
         => Answers(s, "submit", 200)]_vars

\* C37: no step of an edit whose category is a registered company other than
\* the stored company of the record it found changes a file, a spreadsheet or a
\* record.
C37_EditOtherCategory ==
    [][\A s \in Slots :
         (/\ req[s].op = "edit" /\ Active(s) /\ req'[s] # req[s]
          /\ req[s].existing # NoVoucher
          /\ req[s].filter \in Companies
          /\ req[s].filter # req[s].existing.company)
         => UNCHANGED <<vouchers, sheets, files>>]_vars

\* C38: every record of the record store has a transaction type of the enum.
C38_TransactionTypes ==
    \A i \in DOMAIN vouchers : vouchers[i].data.transactionType \in TransactionTypes

\* Every record has a row in the sheet of its spreadsheet with its number, its
\* company, its fields and its document link.
RowsMatch ==
    \A i \in DOMAIN vouchers :
        LET v == vouchers[i] IN
        /\ HasSheet(v.spreadsheetId, v.company)
        /\ \E k \in DOMAIN sheets[v.spreadsheetId].rows :
              sheets[v.spreadsheetId].rows[k] =
                 [no |-> v.voucherNo, filter |-> v.company, data |-> v.data,
                  link |-> v.pdfLink]

\* C39: with requests one at a time, after successful submits only (as many
\* records as requests), or after successful submits and then one successful
\* edit, every record has its row.
C39_RowsMatchRecords ==
    (/\ NoneActive
     /\ \/ nreq = Len(vouchers)
        \/ nreq = Len(vouchers) + 1 /\ \E s \in Slots : Answered(s, "edit", 200))
    => RowsMatch

====
